---- MODULE Spec2Model ----
(***************************************************************************)
(* Model of stat_core (LukeThayer/stat_manager): stat aggregation, damage  *)
(* calculation, the defense functions and damage resolution.               *)
(*                                                                         *)
(* Numbers.  The program computes in f64.  The model computes in exact     *)
(* rational arithmetic: a number is a pair <<n, d>> with d > 0 and         *)
(* gcd(n, d) = 1, so that every equality the program states "up to         *)
(* rounding" is an exact equality here and every inequality is decided.    *)
(***************************************************************************)
EXTENDS Integers, Sequences, FiniteSets, TLC

VARIABLES cr, rq, sb, cd, cv, ds, ef, dm, sv, sz

vars == <<cr, rq, sb, cd, cv, ds, ef, dm, sv, sz>>

(***************************************************************************)
(* Exact arithmetic standing for f64                                       *)
(***************************************************************************)
Abs(x) == IF x < 0 THEN 0 - x ELSE x

RECURSIVE GCD(_, _)
GCD(a, b) == IF b = 0 THEN a ELSE GCD(b, a % b)

\* F applied to the value of e, with e evaluated once (let v = e; F(v))
Let(e, F(_)) == CHOOSE r \in {F(v) : v \in {e}} : TRUE

\* the normal form of p[1]/p[2], for p[2] # 0
Norm(p) ==
    IF p[1] = 0 THEN <<0, 1>>
    ELSE Let(GCD(Abs(p[1]), Abs(p[2])) * (IF p[2] < 0 THEN 0 - 1 ELSE 1),
             LAMBDA g : <<p[1] \div g, p[2] \div g>>)

Frac(n, d) == Let(<<n, d>>, Norm)

Q(n) == <<n, 1>>

RAdd(a, b) == Let(<<a, b>>,
    LAMBDA p : Norm(<<p[1][1] * p[2][2] + p[2][1] * p[1][2], p[1][2] * p[2][2]>>))
RSub(a, b) == Let(<<a, b>>,
    LAMBDA p : Norm(<<p[1][1] * p[2][2] - p[2][1] * p[1][2], p[1][2] * p[2][2]>>))
RMul(a, b) == Let(<<a, b>>,
    LAMBDA p : Norm(<<p[1][1] * p[2][1], p[1][2] * p[2][2]>>))
RDiv(a, b) == Let(<<a, b>>,
    LAMBDA p : Norm(<<p[1][1] * p[2][2], p[1][2] * p[2][1]>>))
RLt(a, b) == \E p \in {<<a, b>>} : p[1][1] * p[2][2] < p[2][1] * p[1][2]
RLe(a, b) == \E p \in {<<a, b>>} : p[1][1] * p[2][2] <= p[2][1] * p[1][2]
RMin(a, b) == Let(<<a, b>>, LAMBDA p : IF RLt(p[2], p[1]) THEN p[2] ELSE p[1])
RMax(a, b) == Let(<<a, b>>, LAMBDA p : IF RLt(p[1], p[2]) THEN p[2] ELSE p[1])
\* f64::clamp(lo, hi)
RClamp(x, lo, hi) ==
    Let(x, LAMBDA v : IF RLt(v, lo) THEN lo ELSE IF RLt(hi, v) THEN hi ELSE v)

Zero == Q(0)
One == Q(1)

\* sum and product of a sequence of numbers (Iterator::sum, Iterator::product)
RECURSIVE RSum(_)
RSum(s) == IF s = <<>> THEN Zero ELSE RAdd(s[1], RSum(Tail(s)))

RECURSIVE RProd(_)
RProd(s) == IF s = <<>> THEN One ELSE RMul(s[1], RProd(Tail(s)))

(***************************************************************************)
(* StatValue: (base + flat) * (1 + increased) * prod(1 + more[i])          *)
(***************************************************************************)
with_base(b) == [base |-> b, flat |-> Zero, increased |-> Zero, more |-> <<>>]

total_increased_multiplier(v) == RAdd(One, v.increased)

total_more_multiplier(v) ==
    RProd([i \in 1..Len(v.more) |-> RAdd(One, v.more[i])])

\* compute with the more entries added up like the increased ones
compute_more_additive(v) ==
    RMul(RMul(RAdd(v.base, v.flat), total_increased_multiplier(v)),
         RAdd(One, RSum(v.more)))

compute(v) ==
    RMul(RMul(RAdd(v.base, v.flat), total_increased_multiplier(v)),
         total_more_multiplier(v))

add_flat(v, x) == [v EXCEPT !.flat = RAdd(@, x)]
add_increased(v, x) == [v EXCEPT !.increased = RAdd(@, x)]
add_more(v, x) == [v EXCEPT !.more = Append(@, x)]

(***************************************************************************)
(* Defense constants and functions                                         *)
(***************************************************************************)
MAX_RESISTANCE == Q(100)
MIN_RESISTANCE == Q(0 - 200)
PENETRATION_VS_CAPPED == Frac(1, 2)
ARMOUR_CONSTANT == Q(5)
EVASION_SCALE_FACTOR == Q(1000)

\* a variant in which penetration counts in full against a capped resistance
calculate_effective_resistance_full_pen(resistance, penetration) ==
    RClamp(RSub(RClamp(resistance, MIN_RESISTANCE, MAX_RESISTANCE), penetration),
           MIN_RESISTANCE, MAX_RESISTANCE)

calculate_effective_resistance(resistance, penetration) ==
    LET clamped_resist == RClamp(resistance, MIN_RESISTANCE, MAX_RESISTANCE)
        effective ==
            IF RLe(MAX_RESISTANCE, clamped_resist)
            THEN RSub(MAX_RESISTANCE, RMul(penetration, PENETRATION_VS_CAPPED))
            ELSE RSub(clamped_resist, penetration)
    IN  RClamp(effective, MIN_RESISTANCE, MAX_RESISTANCE)

calculate_resistance_mitigation(damage, resistance, penetration) ==
    IF RLe(damage, Zero) THEN Zero
    ELSE LET effective_resist == calculate_effective_resistance(resistance, penetration)
             mitigation == RDiv(effective_resist, Q(100))
             damage_mult == RSub(One, mitigation)
         IN  RMax(RMul(damage, damage_mult), Zero)

calculate_armour_reduction(armour, damage) ==
    IF RLe(damage, Zero) THEN Zero
    ELSE IF RLe(armour, Zero) THEN damage
    ELSE LET reduction_percent ==
                 RDiv(armour, RAdd(armour, RMul(ARMOUR_CONSTANT, damage)))
             reduced == RMul(damage, RSub(One, reduction_percent))
         IN  RMax(reduced, Zero)

\* a variant of the cap without the branch for evasion <= 0
calculate_damage_cap_unguarded(accuracy, evasion) ==
    IF RLe(accuracy, Zero) THEN Zero
    ELSE RDiv(accuracy, RAdd(One, RDiv(evasion, EVASION_SCALE_FACTOR)))

calculate_damage_cap(accuracy, evasion) ==
    IF RLe(accuracy, Zero) THEN Zero
    ELSE IF RLe(evasion, Zero) THEN accuracy
    ELSE RDiv(accuracy, RAdd(One, RDiv(evasion, EVASION_SCALE_FACTOR)))

\* returns <<damage_taken, damage_evaded>>
apply_evasion_cap(accuracy, evasion, damage) ==
    IF RLe(damage, Zero) THEN <<Zero, Zero>>
    ELSE LET cap == calculate_damage_cap(accuracy, evasion)
         IN  IF RLe(damage, cap) THEN <<damage, Zero>>
             ELSE <<cap, RSub(damage, cap)>>

(***************************************************************************)
(* StatBlock                                                               *)
(*                                                                         *)
(* The record holds the fields of the struct that the modelled operations  *)
(* read or write, and one representative of each family of fields that     *)
(* they treat alike (strength for the six attributes, life_regen for the   *)
(* recovery stats, movement_speed_increased for the utility stats).        *)
(* `effects` is the unified effect list that resolve_damage adds to.       *)
(***************************************************************************)
DamageTypes == {"Physical", "Fire", "Cold", "Lightning", "Chaos"}

NoItems == <<>>

StatusEffectStatsDefault ==
    [dot_increased |-> Zero, duration_increased |-> Zero,
     magnitude |-> Zero, max_stacks |-> 0]

StatusConversionsDefault ==
    [from_physical |-> Zero, from_fire |-> Zero, from_cold |-> Zero,
     from_lightning |-> Zero, from_chaos |-> Zero]

with_id(id) ==
    [id |-> id,
     equipped_items |-> NoItems,
     buff_sources |-> <<>>,
     max_life |-> with_base(Q(50)),
     current_life |-> Q(50),
     max_mana |-> with_base(Q(40)),
     current_mana |-> Q(40),
     max_energy_shield |-> Zero,
     current_energy_shield |-> Zero,
     strength |-> with_base(Q(10)),
     armour |-> with_base(Zero),
     evasion |-> with_base(Zero),
     fire_resistance |-> with_base(Zero),
     cold_resistance |-> with_base(Zero),
     lightning_resistance |-> with_base(Zero),
     chaos_resistance |-> with_base(Zero),
     accuracy |-> with_base(Q(1000)),
     global_physical_damage |-> with_base(Zero),
     global_fire_damage |-> with_base(Zero),
     global_cold_damage |-> with_base(Zero),
     global_lightning_damage |-> with_base(Zero),
     global_chaos_damage |-> with_base(Zero),
     critical_chance |-> with_base(Zero),
     critical_multiplier |-> with_base(Frac(3, 2)),
     fire_penetration |-> with_base(Zero),
     life_regen |-> with_base(Zero),
     movement_speed_increased |-> Zero,
     active_dots |-> <<>>,
     active_buffs |-> <<>>,
     active_status_effects |-> <<>>,
     effects |-> <<>>,
     weapon_physical_min |-> Zero,
     weapon_physical_max |-> Zero,
     weapon_fire_min |-> Zero,
     weapon_fire_max |-> Zero,
     weapon_attack_speed |-> One,
     weapon_crit_chance |-> Q(5),
     poison_stats |-> StatusEffectStatsDefault,
     poison_conversions |-> StatusConversionsDefault]

resistance(block, damage_type) ==
    CASE damage_type = "Physical" -> Zero
      [] damage_type = "Fire" -> compute(block.fire_resistance)
      [] damage_type = "Cold" -> compute(block.cold_resistance)
      [] damage_type = "Lightning" -> compute(block.lightning_resistance)
      [] damage_type = "Chaos" -> compute(block.chaos_resistance)

computed_max_life(block) == compute(block.max_life)

(***************************************************************************)
(* Effects (ailments)                                                      *)
(***************************************************************************)
new_ailment(status, duration, magnitude, dot_dps, tick_rate, stacking, source_id) ==
    [status |-> status, magnitude |-> magnitude, dot_dps |-> dot_dps,
     tick_rate |-> tick_rate, time_until_tick |-> tick_rate,
     stacking |-> stacking, effectiveness |-> One,
     duration_remaining |-> duration, total_duration |-> duration,
     stacks |-> 1, max_stacks |-> 999, source_id |-> source_id]

StrongestOnly == [kind |-> "StrongestOnly", stack_effectiveness |-> One]
Unlimited == [kind |-> "Unlimited", stack_effectiveness |-> One]
Limited(eff) == [kind |-> "Limited", stack_effectiveness |-> eff]

\* the Effect constructors, then the duration overwritten by the pending one
create_effect_from_status(status, duration, magnitude, dot_dps, source_id) ==
    LET e == CASE status = "Poison" ->
                    new_ailment("Poison", Q(2), Zero, dot_dps, Frac(33, 100),
                                Unlimited, source_id)
               [] status = "Bleed" ->
                    [new_ailment("Bleed", Q(5), Zero, dot_dps, One,
                                 Limited(Frac(1, 2)), source_id)
                        EXCEPT !.max_stacks = 8]
               [] status = "Burn" ->
                    new_ailment("Burn", Q(4), Zero, dot_dps, Frac(1, 2),
                                StrongestOnly, source_id)
               [] status = "Freeze" ->
                    new_ailment("Freeze", Frac(1, 2), magnitude, Zero, Frac(1, 10),
                                StrongestOnly, source_id)
               [] status = "Chill" ->
                    new_ailment("Chill", Q(2), magnitude, Zero, Frac(1, 2),
                                StrongestOnly, source_id)
               [] status = "Static" ->
                    [new_ailment("Static", One, magnitude, Zero, Frac(1, 4),
                                 Limited(One), source_id)
                        EXCEPT !.max_stacks = 3]
               [] status = "Fear" ->
                    new_ailment("Fear", Frac(3, 2), magnitude, Zero, Frac(1, 2),
                                StrongestOnly, source_id)
               [] status = "Slow" ->
                    new_ailment("Slow", Q(3), magnitude, Zero, Frac(1, 2),
                                StrongestOnly, source_id)
    IN  [e EXCEPT !.duration_remaining = duration, !.total_duration = duration]

\* indices of the effects of one kind
SameKind(effects, status) == {i \in 1..Len(effects) : effects[i].status = status}

Strength(e) == IF RLt(Zero, e.dot_dps) THEN e.dot_dps ELSE e.magnitude

\* StatBlock::add_effect: add through the kind's stacking discipline
add_effect(effects, e) ==
    LET same == SameKind(effects, e.status)
    IN  CASE e.stacking.kind = "Unlimited" -> Append(effects, e)
          [] e.stacking.kind = "StrongestOnly" ->
                IF same = {} THEN Append(effects, e)
                ELSE LET i == CHOOSE j \in same : TRUE
                     IN  IF RLe(Strength(effects[i]), Strength(e))
                         THEN [effects EXCEPT ![i] = e]
                         ELSE effects
          [] e.stacking.kind = "Limited" ->
                IF Cardinality(same) < e.max_stacks
                THEN Append(effects,
                        [e EXCEPT !.effectiveness =
                            IF same = {} THEN One ELSE e.stacking.stack_effectiveness])
                ELSE LET w == CHOOSE j \in same :
                                \A k \in same :
                                    \/ RLt(effects[j].dot_dps, effects[k].dot_dps)
                                    \/ (effects[j].dot_dps = effects[k].dot_dps /\ j <= k)
                     IN  [effects EXCEPT ![w].duration_remaining = e.duration_remaining,
                                         ![w].total_duration = e.total_duration,
                                         ![w].dot_dps = e.dot_dps]

\* a variant without the guard on the target's maximum health
calculate_apply_chance_no_guard(pending, target_max_health) ==
    IF target_max_health = Zero THEN One
    ELSE RClamp(RDiv(pending.status_damage, target_max_health), Zero, One)

calculate_apply_chance(pending, target_max_health) ==
    IF RLe(target_max_health, Zero) THEN Zero
    ELSE RClamp(RDiv(pending.status_damage, target_max_health), Zero, One)

(***************************************************************************)
(* DamagePacket and CombatResult                                           *)
(***************************************************************************)
FinalDamage(damage_type, amount) == [damage_type |-> damage_type, amount |-> amount]

\* DamagePacket::new: the Default values
DamagePacket_new(source_id, skill_id) ==
    [source_id |-> source_id, skill_id |-> skill_id, damages |-> <<>>,
     is_critical |-> FALSE, crit_multiplier |-> Frac(3, 2),
     fire_pen |-> Zero, cold_pen |-> Zero, lightning_pen |-> Zero, chaos_pen |-> Zero,
     status_effects_to_apply |-> <<>>, accuracy |-> Q(1000), hit_count |-> 1]

penetration(packet, damage_type) ==
    CASE damage_type = "Physical" -> Zero
      [] damage_type = "Fire" -> packet.fire_pen
      [] damage_type = "Cold" -> packet.cold_pen
      [] damage_type = "Lightning" -> packet.lightning_pen
      [] damage_type = "Chaos" -> packet.chaos_pen

CombatResult_new ==
    [damage_taken |-> <<>>, total_damage |-> Zero,
     damage_blocked_by_es |-> Zero, damage_reduced_by_armour |-> Zero,
     damage_reduced_by_resists |-> Zero, damage_prevented_by_evasion |-> Zero,
     effects_applied |-> <<>>,
     es_before |-> Zero, es_after |-> Zero, life_before |-> Zero, life_after |-> Zero,
     is_killing_blow |-> FALSE, triggered_evasion_cap |-> FALSE]

DamageTaken_new(damage_type, raw, mitigated, final_dmg) ==
    [damage_type |-> damage_type, raw_amount |-> raw,
     mitigated_amount |-> mitigated, final_amount |-> final_dmg]

Finals(damage_taken) == [i \in 1..Len(damage_taken) |-> damage_taken[i].final_amount]

(***************************************************************************)
(* resolve_damage_with_rng, step by step.  `rolls` is the sequence of      *)
(* values the RNG returns, one per pending status effect, each in [0, 1).  *)
(***************************************************************************)
\* Step 1: resistance per packet entry
after_resist(defender, packet, fd) ==
    IF fd.damage_type = "Physical" THEN fd.amount
    ELSE calculate_resistance_mitigation(fd.amount,
            resistance(defender, fd.damage_type), penetration(packet, fd.damage_type))

MitigationStep(defender, packet) ==
    [i \in 1..Len(packet.damages) |->
        LET fd == packet.damages[i]
            ar == after_resist(defender, packet, fd)
        IN  DamageTaken_new(fd.damage_type, fd.amount,
                            RMax(RSub(fd.amount, ar), Zero), ar)]

ReducedByResists(defender, packet) ==
    RSum([i \in 1..Len(packet.damages) |->
            LET fd == packet.damages[i]
                mitigated == RSub(fd.amount, after_resist(defender, packet, fd))
            IN  IF RLt(Zero, mitigated) THEN mitigated ELSE Zero])

\* Step 2: armour on the first Physical entry; returns <<damage_taken, armour_reduced>>
ArmourStep(defender, taken) ==
    LET phys == {i \in 1..Len(taken) : taken[i].damage_type = "Physical"}
    IN  IF phys = {} THEN <<taken, Zero>>
        ELSE LET i == CHOOSE j \in phys : \A k \in phys : j <= k
             IN  IF RLt(Zero, taken[i].final_amount)
                 THEN LET armour == compute(defender.armour)
                          after_armour ==
                              calculate_armour_reduction(armour, taken[i].final_amount)
                          armour_reduced == RSub(taken[i].final_amount, after_armour)
                      IN  <<[taken EXCEPT
                                ![i].mitigated_amount = RAdd(@, armour_reduced),
                                ![i].final_amount = after_armour],
                            armour_reduced>>
                 ELSE <<taken, Zero>>

\* Step 3: evasion cap; returns <<damage_taken, evaded>>
EvasionStep(defender, packet, taken) ==
    LET total_before_evasion == RSum(Finals(taken))
        ev == apply_evasion_cap(packet.accuracy, compute(defender.evasion),
                                total_before_evasion)
        damage_after_evasion == ev[1]
        evaded == ev[2]
    IN  IF RLt(Zero, evaded) /\ RLt(Zero, total_before_evasion)
        THEN LET ratio == RDiv(damage_after_evasion, total_before_evasion)
             IN  <<[i \in 1..Len(taken) |->
                      [taken[i] EXCEPT
                         !.mitigated_amount =
                             RAdd(@, RMul(taken[i].final_amount, RSub(One, ratio))),
                         !.final_amount = RMul(@, ratio)]],
                   evaded>>
        ELSE <<taken, evaded>>

\* a variant of step 4 in which life is spent before the energy shield
AbsorbStepLifeFirst(defender, total_damage) ==
    LET life_taken == RMin(RMax(total_damage, Zero), defender.current_life)
        rest == RSub(RMax(total_damage, Zero), life_taken)
        es_absorbed == RMin(rest, defender.current_energy_shield)
        life == RSub(defender.current_life, life_taken)
    IN  [es_after |-> RSub(defender.current_energy_shield, es_absorbed),
         damage_blocked_by_es |-> es_absorbed,
         is_killing_blow |-> RLe(life, Zero),
         life_after |-> life]

\* a variant of step 4 without the death check
AbsorbStepNoClamp(defender, total_damage) ==
    LET es == defender.current_energy_shield
        es_absorbed == IF RLt(Zero, es) /\ RLt(Zero, total_damage)
                       THEN RMin(total_damage, es) ELSE Zero
        remaining_damage == RSub(total_damage, es_absorbed)
    IN  [es_after |-> RSub(es, es_absorbed),
         damage_blocked_by_es |-> es_absorbed,
         is_killing_blow |-> FALSE,
         life_after |-> RSub(defender.current_life, remaining_damage)]

\* Step 4: energy shield, then life; returns the record of the new resources
AbsorbStep(defender, total_damage) ==
    LET es == defender.current_energy_shield
        absorbs == RLt(Zero, es) /\ RLt(Zero, total_damage)
        es_absorbed == IF absorbs THEN RMin(total_damage, es) ELSE Zero
        remaining_damage == RSub(total_damage, es_absorbed)
        life == IF RLt(Zero, remaining_damage)
                THEN RSub(defender.current_life, remaining_damage)
                ELSE defender.current_life
        dead == RLe(life, Zero)
    IN  [es_after |-> RSub(es, es_absorbed),
         damage_blocked_by_es |-> es_absorbed,
         is_killing_blow |-> dead,
         life_after |-> IF dead THEN Zero ELSE life]

\* Step 5: status effect applications; returns <<effects, effects_applied>>
RECURSIVE StatusStep(_, _, _, _, _, _)
StatusStep(effects, applied, pendings, rolls, target_max_health, source_id) ==
    IF pendings = <<>> THEN <<effects, applied>>
    ELSE LET pending == Head(pendings)
             apply_chance == calculate_apply_chance(pending, target_max_health)
         IN  IF RLt(Head(rolls), apply_chance)
             THEN LET effect == create_effect_from_status(pending.effect_type,
                                    pending.duration, pending.magnitude,
                                    pending.dot_dps, source_id)
                  IN  StatusStep(add_effect(effects, effect), Append(applied, effect),
                                 Tail(pendings), Tail(rolls), target_max_health, source_id)
             ELSE StatusStep(effects, applied, Tail(pendings), Tail(rolls),
                             target_max_health, source_id)

\* a variant that resolves against a block rebuilt from the defender's id
resolve_damage_on_fresh_block(defender, packet, rolls) ==
    LET fresh == with_id(defender.id)
        s4 == AbsorbStep(fresh, RSum([i \in 1..Len(packet.damages) |->
                                        packet.damages[i].amount]))
    IN  [defender |-> [fresh EXCEPT !.current_energy_shield = s4.es_after,
                                    !.current_life = s4.life_after],
         result |-> [CombatResult_new EXCEPT !.es_after = s4.es_after,
                                             !.life_after = s4.life_after]]

\* returns [defender |-> the new defender, result |-> the CombatResult]
resolve_damage_with_rng(defender, packet, rolls) ==
    Let(ArmourStep(defender, MitigationStep(defender, packet)), LAMBDA s2 :
    Let(EvasionStep(defender, packet, s2[1]), LAMBDA s3 :
    Let(RSum(Finals(s3[1])), LAMBDA total_damage :
    Let(AbsorbStep(defender, total_damage), LAMBDA s4 :
    Let([defender EXCEPT !.current_energy_shield = s4.es_after,
                         !.current_life = s4.life_after], LAMBDA hurt :
    Let(StatusStep(hurt.effects, <<>>, packet.status_effects_to_apply, rolls,
                   computed_max_life(hurt), packet.source_id), LAMBDA s5 :
        [defender |-> [hurt EXCEPT !.effects = s5[1]],
         result |->
            [CombatResult_new EXCEPT
                !.es_before = defender.current_energy_shield,
                !.life_before = defender.current_life,
                !.damage_taken = s3[1],
                !.damage_reduced_by_resists = ReducedByResists(defender, packet),
                !.damage_reduced_by_armour = s2[2],
                !.triggered_evasion_cap = RLt(Zero, s3[2]),
                !.damage_prevented_by_evasion = RMax(s3[2], Zero),
                !.total_damage = total_damage,
                !.damage_blocked_by_es = s4.damage_blocked_by_es,
                !.is_killing_blow = s4.is_killing_blow,
                !.es_after = s4.es_after,
                !.life_after = s4.life_after,
                !.effects_applied = s5[2]]]))))))

(***************************************************************************)
(* Damage resolution as a state machine: a caller builds a defender and a  *)
(* packet (as the tests of resolution.rs do, by setting public fields of   *)
(* StatBlock::new and DamagePacket::new) and calls resolve_damage once.    *)
(***************************************************************************)
Idle == [pc |-> "idle"]

MaxLifeSteps == 2
MaxResistSteps == 3

LifeValues == {Q(50 * k) : k \in 1..MaxLifeSteps}
ShieldValues == {Zero, Q(50)}
ArmourValues == {Zero, Q(1000)}
EvasionValues == {Q(0 - 500), Zero, Q(1000)}
ResistValues == {Q(50 * k - 100) : k \in 1..MaxResistSteps} \cup {Q(100)}
AccuracyValues == {Zero, Q(1000), Q(2000)}
PenValues == {Zero, Q(30)}

BurnOnDefender ==
    create_effect_from_status("Burn", Q(4), One, Q(10), "earlier_attacker")

SomeItems == [MainHand |-> "iron_sword"]

MkDefender(life, es, armour, evasion, fire_res, effects) ==
    [with_id("defender") EXCEPT
        !.equipped_items = SomeItems,
        !.current_life = life,
        !.max_energy_shield = es,
        !.current_energy_shield = es,
        !.armour.base = armour,
        !.evasion.base = evasion,
        !.fire_resistance.base = fire_res,
        !.effects = effects]

Pending(effect_type, status_damage, duration, magnitude, dot_dps) ==
    [effect_type |-> effect_type, status_damage |-> status_damage,
     duration |-> duration, magnitude |-> magnitude, dot_dps |-> dot_dps]

\* <<pending status effects, the values the RNG returns for them>>
StatusInputs ==
    { <<<<>>, <<>>>>,
      <<<<Pending("Burn", Q(25), Q(4), One, Frac(25, 4))>>, <<Frac(1, 4)>>>>,
      <<<<Pending("Burn", Q(25), Q(4), One, Frac(25, 4))>>, <<Frac(3, 4)>>>>,
      <<<<Pending("Poison", Q(75), Q(2), One, Q(15)),
          Pending("Bleed", Q(10), Q(5), One, Q(2))>>, <<Frac(1, 2), Zero>>>> }

DamageInputs ==
    { <<>>,
      <<FinalDamage("Fire", Q(75))>>,
      <<FinalDamage("Fire", Q(1500))>>,
      <<FinalDamage("Physical", Q(100))>>,
      <<FinalDamage("Physical", Q(600)), FinalDamage("Fire", Q(1500))>> }

MkPacket(damages, fire_pen, accuracy, statuses) ==
    [DamagePacket_new("attacker", "test_skill") EXCEPT
        !.damages = damages, !.fire_pen = fire_pen, !.accuracy = accuracy,
        !.status_effects_to_apply = statuses]

InitResolve ==
    /\ \E life \in LifeValues, es \in ShieldValues, armour \in ArmourValues,
          evasion \in EvasionValues, fire_res \in ResistValues,
          effects \in {<<>>, <<BurnOnDefender>>},
          damages \in DamageInputs, fire_pen \in PenValues,
          accuracy \in AccuracyValues, st \in StatusInputs :
            cr = [pc |-> "start",
                  defender |-> MkDefender(life, es, armour, evasion, fire_res, effects),
                  packet |-> MkPacket(damages, fire_pen, accuracy, st[1]),
                  rolls |-> st[2],
                  new_defender |-> with_id("none"),
                  result |-> CombatResult_new]
    /\ rq = Idle /\ sb = Idle /\ cd = Idle /\ cv = Idle
    /\ ds = Idle /\ ef = Idle /\ dm = Idle /\ sv = Idle /\ sz = Idle

\* let (new_defender, result) = resolve_damage_with_rng(&defender, &packet, &mut rng)
Resolve ==
    /\ cr.pc = "start"
    /\ LET r == resolve_damage_with_rng(cr.defender, cr.packet, cr.rolls)
       IN  cr' = [cr EXCEPT !.pc = "done",
                            !.new_defender = r.defender,
                            !.result = r.result]
    /\ UNCHANGED <<rq, sb, cd, cv, ds, ef, dm, sv, sz>>

NextResolve == Resolve

SpecResolve == InitResolve /\ [][NextResolve]_vars

(***************************************************************************)
(* Properties of damage resolution                                         *)
(***************************************************************************)
Resolved == cr.pc = "done"

\* C1: energy shield absorbs before life: the returned life is lower than the
\* input's only if the returned energy shield is 0, and the amount taken from
\* the energy shield is min(total_damage, energy shield before the hit).
C1_EsAbsorbsFirst ==
    Resolved =>
        LET old == cr.defender
            new == cr.new_defender
            taken_from_es == RSub(old.current_energy_shield, new.current_energy_shield)
        IN  /\ RLt(new.current_life, old.current_life)
                  => new.current_energy_shield = Zero
            /\ taken_from_es = RMin(cr.result.total_damage, old.current_energy_shield)
            /\ cr.result.damage_blocked_by_es = taken_from_es

\* a shielded defender whose shield was broken and whose life was then hit
C1_Witness ==
    /\ Resolved
    /\ RLt(Zero, cr.defender.current_energy_shield)
    /\ RLt(cr.new_defender.current_life, cr.defender.current_life)
    /\ RLt(Zero, cr.new_defender.current_life)

FrameFields == DOMAIN with_id("x") \ {"current_energy_shield", "current_life", "effects"}

C5_LifeClampedAtZero ==
    Resolved =>
        LET old == cr.defender
            new == cr.new_defender
            to_life == RSub(cr.result.total_damage, cr.result.damage_blocked_by_es)
        IN  /\ RLe(Zero, new.current_life)
            /\ RLe(RSub(old.current_life, to_life), Zero)
                  => (new.current_life = Zero /\ cr.result.is_killing_blow)
            /\ RLt(Zero, new.current_life) => ~cr.result.is_killing_blow
            /\ cr.result.life_after = new.current_life
            /\ cr.result.es_after = new.current_energy_shield

\* a hit for more than the defender's shield and life together
C5_Witness ==
    /\ Resolved
    /\ cr.result.is_killing_blow
    /\ cr.new_defender.current_life = Zero
    /\ RLt(RAdd(cr.defender.current_life, cr.defender.current_energy_shield),
           cr.result.total_damage)

\* the finals of every entry as they stand before the evasion step
PreEvasion == ArmourStep(cr.defender, MitigationStep(cr.defender, cr.packet))[1]

\* cap = accuracy / (1 + evasion/1000), 0 when accuracy <= 0
CapFormula(accuracy, evasion) ==
    IF RLe(accuracy, Zero) THEN Zero
    ELSE RDiv(accuracy, RAdd(One, RDiv(evasion, Q(1000))))

\* the same, with cap = accuracy when evasion <= 0
CapFormulaFloored(accuracy, evasion) ==
    IF RLe(accuracy, Zero) THEN Zero
    ELSE IF RLe(evasion, Zero) THEN accuracy
    ELSE RDiv(accuracy, RAdd(One, RDiv(evasion, Q(1000))))

\* the statement of the evasion cap over a given cap formula
EvasionCapLaw(cap) ==
    LET pre == PreEvasion
        sum == RSum(Finals(pre))
        r == apply_evasion_cap(cr.packet.accuracy, compute(cr.defender.evasion), sum)
        post == cr.result.damage_taken
    IN  /\ RAdd(r[1], r[2]) = sum
        /\ RLe(r[1], cap)
        /\ Len(post) = Len(pre)
        /\ IF RLt(cap, sum)
           THEN /\ \A i \in 1..Len(pre) :
                      post[i].final_amount = RMul(pre[i].final_amount, RDiv(cap, sum))
                /\ cr.result.total_damage = cap
                /\ cr.result.damage_prevented_by_evasion = RSub(sum, cap)
                /\ cr.result.triggered_evasion_cap
           ELSE \A i \in 1..Len(pre) : post[i].final_amount = pre[i].final_amount

\* C6 (as stated): apply_evasion_cap returns (taken, evaded) with
\* taken + evaded = d and taken <= cap = accuracy / (1 + evasion/1000), cap = 0
\* when accuracy <= 0; in resolve_damage a sum above the cap scales every final
\* by cap/sum, total_damage is the cap, damage_prevented_by_evasion is
\* sum - cap and triggered_evasion_cap is set; otherwise no final changes.
C6_AsStated ==
    Resolved => EvasionCapLaw(CapFormula(cr.packet.accuracy, compute(cr.defender.evasion)))

\* C6 (amended): the same statement with cap = accuracy when evasion <= 0.
C6_EvasionCap ==
    Resolved =>
        EvasionCapLaw(CapFormulaFloored(cr.packet.accuracy, compute(cr.defender.evasion)))

\* a two-type hit above a positive cap of an evasive defender
C6_Witness ==
    /\ Resolved
    /\ Len(cr.result.damage_taken) = 2
    /\ RLt(Zero, compute(cr.defender.evasion))
    /\ cr.result.triggered_evasion_cap
    /\ RLt(Zero, cr.result.total_damage)
    /\ RLt(cr.result.total_damage, RSum(Finals(PreEvasion)))

EntriesBalance ==
    \A i \in 1..Len(cr.result.damage_taken) :
        cr.result.damage_taken[i].raw_amount =
            RAdd(cr.result.damage_taken[i].mitigated_amount,
                 cr.result.damage_taken[i].final_amount)

TotalIsSumOfFinals ==
    cr.result.total_damage = RSum(Finals(cr.result.damage_taken))

LossIsTotal ==
    ~cr.result.is_killing_blow =>
        RAdd(RSub(cr.result.es_before, cr.result.es_after),
             RSub(cr.result.life_before, cr.result.life_after))
            = cr.result.total_damage

\* C30: in the CombatResult every per-type entry has raw_amount =
\* mitigated_amount + final_amount after the resistance, armour and evasion
\* steps, also under a negative effective resistance; total_damage is the
\* sum of the final amounts; and when the blow does not kill, the energy
\* shield lost plus the life lost equals total_damage.
C30_ResultBalances ==
    Resolved => (EntriesBalance /\ TotalIsSumOfFinals /\ LossIsTotal)

(***************************************************************************)
(* The resistance function on its own: a caller picks damage, resistance   *)
(* and penetration and calls calculate_resistance_mitigation.              *)
(***************************************************************************)
MaxPenSteps == 7

MitigationDamages == {Zero, Q(40), Q(100)}
MitigationResists ==
    {Q(0 - 250), Q(0 - 200), Q(0 - 50), Zero, Q(50), Q(75), Q(99), Q(100), Q(120)}
MitigationPens == {Q(100 * k) : k \in 0..MaxPenSteps} \cup {Q(25), Q(30)}

InitResist ==
    /\ \E d \in MitigationDamages, r \in MitigationResists, p \in MitigationPens :
          rq = [pc |-> "start", damage |-> d, resistance |-> r, penetration |-> p,
                out |-> Zero]
    /\ cr = Idle /\ sb = Idle /\ cd = Idle /\ cv = Idle
    /\ ds = Idle /\ ef = Idle /\ dm = Idle /\ sv = Idle /\ sz = Idle

\* let out = calculate_resistance_mitigation(damage, resistance, penetration)
Mitigate ==
    /\ rq.pc = "start"
    /\ rq' = [rq EXCEPT !.pc = "done",
                        !.out = calculate_resistance_mitigation(
                                    rq.damage, rq.resistance, rq.penetration)]
    /\ UNCHANGED <<cr, sb, cd, cv, ds, ef, dm, sv, sz>>

NextResist == Mitigate

SpecResist == InitResist /\ [][NextResist]_vars

\* max(0, d * (1 - e/100))
MitigationFormula(d, e) == RMax(Zero, RMul(d, RSub(One, RDiv(e, Q(100)))))

\* e = 100 - 0.5 p for r >= 100, clamp(r - p, -200, 100) otherwise
EffectiveFormula(r, p) ==
    IF RLe(Q(100), r) THEN RSub(Q(100), RMul(Frac(1, 2), p))
    ELSE RClamp(RSub(r, p), Q(0 - 200), Q(100))

\* the same, with the value for r >= 100 clamped to [-200, 100] as well
EffectiveFormulaClamped(r, p) ==
    IF RLe(Q(100), r) THEN RClamp(RSub(Q(100), RMul(Frac(1, 2), p)), Q(0 - 200), Q(100))
    ELSE RClamp(RSub(r, p), Q(0 - 200), Q(100))

\* the statement of the mitigation over a given effective resistance e
MitigationLaw(e) ==
    /\ rq.out = MitigationFormula(rq.damage, e)
    /\ (rq.resistance = Q(100) /\ rq.penetration = Q(30)) => e = Q(85)
    /\ (RLt(e, Zero) /\ RLt(Zero, rq.damage)) => RLt(rq.damage, rq.out)

StatAccumulator_new ==
    [life_flat |-> Zero, life_increased |-> Zero, life_more |-> <<>>,
     mana_flat |-> Zero, strength_flat |-> Zero,
     armour_flat |-> Zero, evasion_flat |-> Zero, energy_shield_flat |-> Zero,
     fire_resistance |-> Zero,
     physical_damage_flat |-> Zero, physical_damage_increased |-> Zero,
     physical_damage_more |-> <<>>,
     critical_chance_increased |-> Zero, critical_multiplier_flat |-> Zero,
     weapon_physical_min |-> Zero, weapon_physical_max |-> Zero,
     weapon_physical_increased |-> Zero, weapon_elemental_damages |-> <<>>,
     weapon_attack_speed |-> Zero, weapon_crit_chance |-> Zero]

apply_stat_type(acc, stat, value) ==
    CASE stat = "AddedPhysicalDamage" ->
            [acc EXCEPT !.physical_damage_flat = RAdd(@, value)]
      [] stat = "IncreasedPhysicalDamage" ->
            [acc EXCEPT !.physical_damage_increased = RAdd(@, RDiv(value, Q(100)))]
      [] stat = "IncreasedCriticalChance" ->
            [acc EXCEPT !.critical_chance_increased = RAdd(@, RDiv(value, Q(100)))]
      [] stat = "IncreasedCriticalDamage" ->
            [acc EXCEPT !.critical_multiplier_flat = RAdd(@, RDiv(value, Q(100)))]
      [] stat = "AddedArmour" -> [acc EXCEPT !.armour_flat = RAdd(@, value)]
      [] stat = "AddedEvasion" -> [acc EXCEPT !.evasion_flat = RAdd(@, value)]
      [] stat = "AddedEnergyShield" ->
            [acc EXCEPT !.energy_shield_flat = RAdd(@, value)]
      [] stat = "AddedStrength" -> [acc EXCEPT !.strength_flat = RAdd(@, value)]
      [] stat = "AddedLife" -> [acc EXCEPT !.life_flat = RAdd(@, value)]
      [] stat = "AddedMana" -> [acc EXCEPT !.mana_flat = RAdd(@, value)]
      [] stat = "IncreasedLife" ->
            [acc EXCEPT !.life_increased = RAdd(@, RDiv(value, Q(100)))]
      [] stat = "FireResistance" -> [acc EXCEPT !.fire_resistance = RAdd(@, value)]

\* a loot_core Modifier; value_max is an Option
Modifier(stat, scope, value, value_max) ==
    [stat |-> stat, scope |-> scope, value |-> value, value_max |-> value_max]

\* modifier.value_max.unwrap_or(modifier.value)
ValueMax(modifier) ==
    IF modifier.value_max = <<>> THEN modifier.value ELSE modifier.value_max[1]

\* GearSource::apply_modifier
apply_modifier(stats, modifier, is_weapon) ==
    IF is_weapon /\ modifier.scope = "Local"
    THEN CASE modifier.stat = "AddedPhysicalDamage" ->
                [stats EXCEPT
                    !.weapon_physical_min = RAdd(@, modifier.value),
                    !.weapon_physical_max = RAdd(@, ValueMax(modifier))]
           [] modifier.stat = "AddedFireDamage" ->
                [stats EXCEPT !.weapon_elemental_damages =
                    Append(@, <<"Fire", modifier.value, ValueMax(modifier)>>)]
           [] modifier.stat = "IncreasedPhysicalDamage" ->
                [stats EXCEPT !.weapon_physical_increased =
                    RAdd(@, RDiv(modifier.value, Q(100)))]
           [] OTHER -> apply_stat_type(stats, modifier.stat, modifier.value)
    ELSE apply_stat_type(stats, modifier.stat, modifier.value)

\* for m in mods { self.apply_modifier(stats, m, is_weapon) }
RECURSIVE ApplyModifiers(_, _, _)
ApplyModifiers(stats, mods, is_weapon) ==
    IF mods = <<>> THEN stats
    ELSE ApplyModifiers(apply_modifier(stats, Head(mods), is_weapon), Tail(mods),
                        is_weapon)

\* the base defenses of an item
ApplyDefenses(stats, defenses) ==
    [stats EXCEPT
        !.armour_flat = IF defenses.armour = <<>> THEN @
                        ELSE RAdd(@, defenses.armour[1]),
        !.evasion_flat = IF defenses.evasion = <<>> THEN @
                         ELSE RAdd(@, defenses.evasion[1]),
        !.energy_shield_flat = IF defenses.energy_shield = <<>> THEN @
                               ELSE RAdd(@, defenses.energy_shield[1])]

\* for entry in &damage.damages { ... }
RECURSIVE ApplyWeaponEntries(_, _)
ApplyWeaponEntries(stats, entries) ==
    IF entries = <<>> THEN stats
    ELSE ApplyWeaponEntries(
            IF Head(entries).damage_type = "Physical"
            THEN [stats EXCEPT !.weapon_physical_min = Head(entries).min,
                               !.weapon_physical_max = Head(entries).max]
            ELSE [stats EXCEPT !.weapon_elemental_damages =
                     Append(@, <<Head(entries).damage_type, Head(entries).min,
                                 Head(entries).max>>)],
            Tail(entries))

\* the weapon damage block of a main-hand item
ApplyWeaponDamage(stats, slot, item) ==
    IF item.damage # <<>> /\ slot = "MainHand"
    THEN [ApplyWeaponEntries(stats, item.damage[1].damages) EXCEPT
             !.weapon_attack_speed = item.damage[1].attack_speed,
             !.weapon_crit_chance = item.damage[1].critical_chance]
    ELSE stats

\* GearSource::apply: implicit, prefixes, suffixes, base defenses, weapon damage
GearSource_apply(stats, slot, item) ==
    ApplyWeaponDamage(
        ApplyDefenses(
            ApplyModifiers(stats, item.implicit \o item.prefixes \o item.suffixes,
                           item.damage # <<>> /\ slot = "MainHand"),
            item.defenses),
        slot, item)

\* BuffSource::new(..).with_modifier(..)
BuffSource_new(buff_id, duration, is_debuff, modifiers) ==
    [buff_id |-> buff_id, duration_remaining |-> duration, stacks |-> 1,
     is_debuff |-> is_debuff, modifiers |-> modifiers]

BuffModifier(stat, value_per_stack, is_more) ==
    [stat |-> stat, value_per_stack |-> value_per_stack, is_more |-> is_more]

\* BuffSource::is_active
buff_is_active(buff) == RLt(Zero, buff.duration_remaining) /\ buff.stacks > 0

\* for modifier in &self.modifiers { ... } of BuffSource::apply
RECURSIVE ApplyBuffModifiers(_, _, _)
ApplyBuffModifiers(stats, mods, stack_mult) ==
    IF mods = <<>> THEN stats
    ELSE ApplyBuffModifiers(
            Let(RMul(Head(mods).value_per_stack, stack_mult), LAMBDA total_value :
                IF Head(mods).is_more /\ Head(mods).stat = "IncreasedPhysicalDamage"
                THEN [stats EXCEPT !.physical_damage_more =
                         Append(@, RDiv(total_value, Q(100)))]
                ELSE apply_stat_type(stats, Head(mods).stat, total_value)),
            Tail(mods), stack_mult)

BuffSource_apply(stats, buff) ==
    IF ~buff_is_active(buff) THEN stats
    ELSE ApplyBuffModifiers(stats, buff.modifiers, Q(buff.stacks))

BaseStatsSource_apply(stats, level) ==
    [stats EXCEPT !.life_flat = RAdd(@, RMul(Q(level - 1), Q(12))),
                  !.mana_flat = RAdd(@, RMul(Q(level - 1), Q(6))),
                  !.strength_flat = RAdd(@, Q(10))]

\* the stat sources handed to rebuild_from_sources
BaseStatsSource(level) == [kind |-> "BaseStats", level |-> level]
GearSource(slot, item) == [kind |-> "Gear", slot |-> slot, item |-> item]
BuffAsSource(buff) == [kind |-> "Buff", buff |-> buff]

\* NodeModifier { stat, value, is_more }
NodeModifier(stat, value, is_more) == [stat |-> stat, value |-> value, is_more |-> is_more]

\* SkillTreeSource with node_stats registered and the nodes allocated in order
SkillTreeSource(allocated_nodes, node_stats) ==
    [kind |-> "SkillTree", allocated_nodes |-> allocated_nodes, node_stats |-> node_stats]

apply_node_modifier(stats, modifier) ==
    IF modifier.is_more /\ modifier.stat = "IncreasedPhysicalDamage"
    THEN [stats EXCEPT !.physical_damage_more = Append(@, RDiv(modifier.value, Q(100)))]
    ELSE IF modifier.is_more /\ modifier.stat = "IncreasedLife"
    THEN [stats EXCEPT !.life_more = Append(@, RDiv(modifier.value, Q(100)))]
    ELSE apply_stat_type(stats, modifier.stat, modifier.value)

RECURSIVE ApplyNodeModifiers(_, _)
ApplyNodeModifiers(stats, modifiers) ==
    IF modifiers = <<>> THEN stats
    ELSE ApplyNodeModifiers(apply_node_modifier(stats, Head(modifiers)), Tail(modifiers))

\* SkillTreeSource::apply: the modifiers of every allocated node that is registered
RECURSIVE SkillTreeSource_apply(_, _, _)
SkillTreeSource_apply(stats, allocated_nodes, node_stats) ==
    IF allocated_nodes = <<>> THEN stats
    ELSE SkillTreeSource_apply(
            IF Head(allocated_nodes) \in DOMAIN node_stats
            THEN ApplyNodeModifiers(stats, node_stats[Head(allocated_nodes)])
            ELSE stats,
            Tail(allocated_nodes), node_stats)

\* StatSource::priority
priority(source) ==
    CASE source.kind = "BaseStats" -> 0 - 100
      [] source.kind = "Gear" -> 0
      [] source.kind = "SkillTree" -> 100
      [] source.kind = "Buff" -> 200

\* StatSource::apply
Source_apply(stats, source) ==
    CASE source.kind = "BaseStats" -> BaseStatsSource_apply(stats, source.level)
      [] source.kind = "Gear" -> GearSource_apply(stats, source.slot, source.item)
      [] source.kind = "SkillTree" ->
            SkillTreeSource_apply(stats, source.allocated_nodes, source.node_stats)
      [] source.kind = "Buff" -> BuffSource_apply(stats, source.buff)

\* the sources left in the order they were passed in
SortByPriority_unsorted(sources) == sources

\* sorted_sources.sort_by_key(|s| s.priority()): stable, over the priorities in use
SortByPriority(sources) ==
    SelectSeq(sources, LAMBDA x : priority(x) = 0 - 100)
        \o SelectSeq(sources, LAMBDA x : priority(x) = 0)
        \o SelectSeq(sources, LAMBDA x : priority(x) = 100)
        \o SelectSeq(sources, LAMBDA x : priority(x) = 200)

RECURSIVE ApplySources(_, _)
ApplySources(stats, sources) ==
    IF sources = <<>> THEN stats
    ELSE ApplySources(Source_apply(stats, Head(sources)), Tail(sources))

\* the weapon elemental damages of one type, summed: <<min, max>>
RECURSIVE WeaponElemental(_, _)
WeaponElemental(entries, damage_type) ==
    IF entries = <<>> THEN <<Zero, Zero>>
    ELSE Let(WeaponElemental(Tail(entries), damage_type), LAMBDA rest :
            IF Head(entries)[1] = damage_type
            THEN <<RAdd(Head(entries)[2], rest[1]), RAdd(Head(entries)[3], rest[2])>>
            ELSE rest)

\* add_flat, add_increased and add_more of one stat
AddAll(v, flat, increased, more) ==
    [v EXCEPT !.flat = RAdd(@, flat), !.increased = RAdd(@, increased),
              !.more = @ \o more]

\* StatAccumulator::apply_to
apply_to(acc, block) ==
    Let(WeaponElemental(acc.weapon_elemental_damages, "Fire"), LAMBDA fire :
    Let(RLt(Zero, acc.weapon_physical_min) \/ RLt(Zero, acc.weapon_physical_max),
        LAMBDA has_phys :
    Let(RAdd(One, acc.weapon_physical_increased), LAMBDA phys_mult :
        [block EXCEPT
            !.max_life = AddAll(@, acc.life_flat, acc.life_increased, acc.life_more),
            !.max_mana = add_flat(@, acc.mana_flat),
            !.strength = add_flat(@, acc.strength_flat),
            !.armour = add_flat(@, acc.armour_flat),
            !.evasion = add_flat(@, acc.evasion_flat),
            !.fire_resistance = add_flat(@, acc.fire_resistance),
            !.global_physical_damage =
                AddAll(@, acc.physical_damage_flat, acc.physical_damage_increased,
                       acc.physical_damage_more),
            !.critical_chance = add_increased(@, acc.critical_chance_increased),
            !.critical_multiplier = add_flat(@, acc.critical_multiplier_flat),
            !.weapon_physical_min =
                IF has_phys THEN RMul(acc.weapon_physical_min, phys_mult) ELSE @,
            !.weapon_physical_max =
                IF has_phys THEN RMul(acc.weapon_physical_max, phys_mult) ELSE @,
            !.weapon_attack_speed =
                IF RLt(Zero, acc.weapon_attack_speed) THEN acc.weapon_attack_speed ELSE @,
            !.weapon_crit_chance =
                IF RLt(Zero, acc.weapon_crit_chance) THEN acc.weapon_crit_chance ELSE @,
            !.weapon_fire_min = RAdd(@, fire[1]),
            !.weapon_fire_max = RAdd(@, fire[2])])))

(***************************************************************************)
(* StatBlock: rebuild and the methods that call it.  equipped_items is a   *)
(* function from the occupied slots to their items; the gear sources are   *)
(* applied in the order of SlotOrder (the program iterates a HashMap; the  *)
(* sums it forms do not depend on the order in exact arithmetic).          *)
(***************************************************************************)
SlotOrder == <<"MainHand", "BodyArmour">>

\* the gear sources of the equipped items, then the buff sources
InternalSources(block) ==
    Let(SelectSeq(SlotOrder, LAMBDA x : x \in DOMAIN block.equipped_items),
        LAMBDA slots :
            [i \in 1..Len(slots) |-> GearSource(slots[i], block.equipped_items[slots[i]])]
            \o [i \in 1..Len(block.buff_sources) |-> BuffAsSource(block.buff_sources[i])])

\* *self = StatBlock::with_id(id), with equipped_items and buff_sources put back
ResetToBase(block) ==
    [with_id(block.id) EXCEPT !.equipped_items = block.equipped_items,
                              !.buff_sources = block.buff_sources]

\* "Update current values to max if they exceed"
ClampCurrent(block) ==
    [block EXCEPT
        !.current_life = RMin(@, compute(block.max_life)),
        !.current_mana = RMin(@, compute(block.max_mana)),
        !.current_energy_shield = RMin(@, block.max_energy_shield)]

\* rebuild_from_sources without "*self = StatBlock::with_id(id)"
rebuild_from_sources_without_reset(block, sources) ==
    ClampCurrent(apply_to(ApplySources(StatAccumulator_new, SortByPriority(sources)),
                          block))

\* StatBlock::rebuild_from_sources
rebuild_from_sources(block, sources) ==
    ClampCurrent(apply_to(ApplySources(StatAccumulator_new, SortByPriority(sources)),
                          ResetToBase(block)))

\* StatBlock::rebuild
rebuild(block) ==
    ClampCurrent(apply_to(ApplySources(StatAccumulator_new, InternalSources(block)),
                          ResetToBase(block)))

\* self.equipped_items.insert(slot, item)
equip_insert(block, slot, item) ==
    [block EXCEPT !.equipped_items =
        [x \in DOMAIN @ \cup {slot} |-> IF x = slot THEN item ELSE @[x]]]

\* self.equipped_items.remove(&slot)
unequip_remove(block, slot) ==
    [block EXCEPT !.equipped_items = [x \in DOMAIN @ \ {slot} |-> @[x]]]

\* apply_buff before its rebuild: refresh and stack an existing buff, or push
apply_buff_merge(block, buff) ==
    Let({i \in 1..Len(block.buff_sources) :
            block.buff_sources[i].buff_id = buff.buff_id}, LAMBDA same :
        IF same = {} THEN [block EXCEPT !.buff_sources = Append(@, buff)]
        ELSE Let(CHOOSE i \in same : \A j \in same : i <= j, LAMBDA i :
                [block EXCEPT
                    !.buff_sources[i].duration_remaining = buff.duration_remaining,
                    !.buff_sources[i].stacks = @ + 1]))

\* self.buff_sources.retain(|b| b.buff_id != buff_id)
remove_buff_retain(block, buff_id) ==
    [block EXCEPT !.buff_sources = SelectSeq(@, LAMBDA b : b.buff_id # buff_id)]

\* self.buff_sources.retain_mut(|buff| buff.tick(delta))
tick_buffs_retain(block, delta) ==
    [block EXCEPT !.buff_sources =
        SelectSeq([i \in 1..Len(@) |->
                      [@[i] EXCEPT !.duration_remaining = RSub(@, delta)]],
                  buff_is_active)]

heal(block, amount) ==
    [block EXCEPT !.current_life = RMin(RAdd(@, amount), compute(block.max_life))]

apply_energy_shield(block, amount) ==
    [block EXCEPT !.current_energy_shield =
        RMin(RAdd(@, amount), block.max_energy_shield)]

set_max_energy_shield(block, amount) ==
    [block EXCEPT !.max_energy_shield = amount,
                  !.current_energy_shield = RMin(@, amount)]

ActiveDoT_new(dot_type, source_id, damage_type, damage_per_tick, tick_rate, duration) ==
    [dot_type |-> dot_type, source_id |-> source_id, damage_type |-> damage_type,
     damage_per_tick |-> damage_per_tick, tick_rate |-> tick_rate,
     time_until_tick |-> tick_rate, duration_remaining |-> duration,
     total_duration |-> duration, effectiveness |-> One, is_strongest |-> TRUE]

ActiveStatusEffect_new(effect_type, duration, magnitude, source_id) ==
    [effect_type |-> effect_type, duration_remaining |-> duration, stacks |-> 1,
     magnitude |-> magnitude, dot_dps |-> Zero, source_id |-> source_id]

(***************************************************************************)
(* The life of one StatBlock: a caller equips and unequips items, applies, *)
(* removes and ticks buffs, rebuilds from explicit sources, and writes the *)
(* current resources and the active effect lists between those calls.      *)
(* sb.pre is the block at the moment the last operation called its         *)
(* rebuild; sb.rebuilt says whether it called one.                         *)
(***************************************************************************)
MaxStacks == 2
MaxActive == 1

NoDefenses == [armour |-> <<>>, evasion |-> <<>>, energy_shield |-> <<>>]

\* the weapon of stat_tui: 30-60 physical, local 5-12 added, local 75% increased
IronSword ==
    [base_type_id |-> "iron_sword",
     implicit |-> <<>>,
     prefixes |-> <<Modifier("AddedPhysicalDamage", "Local", Q(5), <<Q(12)>>),
                    Modifier("IncreasedPhysicalDamage", "Local", Q(75), <<>>)>>,
     suffixes |-> <<Modifier("AddedFireDamage", "Local", Q(8), <<Q(15)>>)>>,
     defenses |-> NoDefenses,
     damage |-> <<[damages |-> <<[damage_type |-> "Physical", min |-> Q(30),
                                   max |-> Q(60)]>>,
                   attack_speed |-> Frac(6, 5), critical_chance |-> Q(5)]>>]

\* the body armour of stat_tui: +40 life, +20 fire resistance, 150 armour
IronPlate ==
    [base_type_id |-> "iron_plate",
     implicit |-> <<>>,
     prefixes |-> <<Modifier("AddedLife", "Global", Q(40), <<>>)>>,
     suffixes |-> <<Modifier("FireResistance", "Global", Q(20), <<>>)>>,
     defenses |-> [NoDefenses EXCEPT !.armour = <<Q(150)>>],
     damage |-> <<>>]

Equippable == {<<"MainHand", IronSword>>, <<"BodyArmour", IronPlate>>}

\* a debuff that lowers maximum life and physical damage
Frailty ==
    BuffSource_new("frailty", Q(2), TRUE,
        <<BuffModifier("AddedLife", Q(0 - 20), FALSE),
          BuffModifier("IncreasedPhysicalDamage", Q(0 - 20), TRUE)>>)

ExplicitSources ==
    {<<BuffAsSource(Frailty), GearSource("MainHand", IronSword), BaseStatsSource(2)>>,
     <<GearSource("BodyArmour", IronPlate)>>}

\* the state after an operation that left `mid` to its rebuild, or did not rebuild
After(op, mid, rebuilds) ==
    Let(mid, LAMBDA m :
        [pc |-> "run", op |-> op, pre |-> m, rebuilt |-> rebuilds,
         block |-> IF rebuilds THEN rebuild(m) ELSE m])

InitBlock ==
    /\ sb = [pc |-> "run", op |-> "new", pre |-> with_id("player"),
             rebuilt |-> FALSE, block |-> with_id("player")]
    /\ cr = Idle /\ rq = Idle /\ cd = Idle /\ cv = Idle
    /\ ds = Idle /\ ef = Idle /\ dm = Idle /\ sv = Idle /\ sz = Idle

Equip ==
    /\ \E e \in Equippable :
          sb' = After("equip", equip_insert(sb.block, e[1], e[2]), TRUE)
    /\ UNCHANGED <<cr, rq, cd, cv, ds, ef, dm, sv, sz>>

Unequip ==
    /\ \E slot \in {"MainHand", "BodyArmour"} :
          sb' = After("unequip", unequip_remove(sb.block, slot),
                      slot \in DOMAIN sb.block.equipped_items)
    /\ UNCHANGED <<cr, rq, cd, cv, ds, ef, dm, sv, sz>>

ApplyBuff ==
    /\ \A i \in 1..Len(sb.block.buff_sources) :
          sb.block.buff_sources[i].stacks < MaxStacks
    /\ sb' = After("apply_buff", apply_buff_merge(sb.block, Frailty), TRUE)
    /\ UNCHANGED <<cr, rq, cd, cv, ds, ef, dm, sv, sz>>

RemoveBuff ==
    /\ sb' = After("remove_buff", remove_buff_retain(sb.block, "frailty"),
                   \E i \in 1..Len(sb.block.buff_sources) :
                       sb.block.buff_sources[i].buff_id = "frailty")
    /\ UNCHANGED <<cr, rq, cd, cv, ds, ef, dm, sv, sz>>

TickBuffs ==
    /\ \E mid \in {tick_buffs_retain(sb.block, One)} :
          sb' = After("tick_buffs", mid,
                      Len(mid.buff_sources) # Len(sb.block.buff_sources))
    /\ UNCHANGED <<cr, rq, cd, cv, ds, ef, dm, sv, sz>>

RebuildFromSources ==
    /\ \E sources \in ExplicitSources :
          sb' = [pc |-> "run", op |-> "rebuild_from_sources", pre |-> sb.block,
                 rebuilt |-> TRUE, block |-> rebuild_from_sources(sb.block, sources),
                 sources |-> sources,
                 twice |-> sb.op = "rebuild_from_sources" /\ sb.sources = sources]
    /\ UNCHANGED <<cr, rq, cd, cv, ds, ef, dm, sv, sz>>

\* block.current_life -= 20.0 by the owner of the block (a hit taken)
TakeHit ==
    /\ RLt(Q(20), sb.block.current_life)
    /\ sb' = After("take_hit", [sb.block EXCEPT !.current_life = RSub(@, Q(20))], FALSE)
    /\ UNCHANGED <<cr, rq, cd, cv, ds, ef, dm, sv, sz>>

Heal ==
    /\ sb' = After("heal", heal(sb.block, Q(20)), FALSE)
    /\ UNCHANGED <<cr, rq, cd, cv, ds, ef, dm, sv, sz>>

SetMaxEnergyShield ==
    /\ sb' = After("set_max_energy_shield", set_max_energy_shield(sb.block, Q(100)), FALSE)
    /\ UNCHANGED <<cr, rq, cd, cv, ds, ef, dm, sv, sz>>

ApplyEnergyShield ==
    /\ sb' = After("apply_energy_shield", apply_energy_shield(sb.block, Q(100)), FALSE)
    /\ UNCHANGED <<cr, rq, cd, cv, ds, ef, dm, sv, sz>>

\* block.active_dots.push(..) by the owner of the block
AddDot ==
    /\ Len(sb.block.active_dots) < MaxActive
    /\ sb' = After("add_dot",
                   [sb.block EXCEPT !.active_dots =
                       Append(@, ActiveDoT_new("ignite", "enemy", "Fire", Q(5),
                                               Frac(1, 2), Q(4)))], FALSE)
    /\ UNCHANGED <<cr, rq, cd, cv, ds, ef, dm, sv, sz>>

\* block.active_status_effects.push(..) by the owner of the block
AddStatusEffect ==
    /\ Len(sb.block.active_status_effects) < MaxActive
    /\ sb' = After("add_status_effect",
                   [sb.block EXCEPT !.active_status_effects =
                       Append(@, ActiveStatusEffect_new("Chill", Q(2), Frac(3, 10),
                                                        "enemy"))], FALSE)
    /\ UNCHANGED <<cr, rq, cd, cv, ds, ef, dm, sv, sz>>

NextBlock ==
    \/ Equip \/ Unequip \/ ApplyBuff \/ RemoveBuff \/ TickBuffs \/ RebuildFromSources
    \/ TakeHit \/ Heal \/ SetMaxEnergyShield \/ ApplyEnergyShield
    \/ AddDot \/ AddStatusEffect

SpecBlock == InitBlock /\ [][NextBlock]_vars

(***************************************************************************)
(* Properties of rebuild                                                   *)
(***************************************************************************)
\* C2: a rebuild (rebuild_from_sources, or the one inside equip, unequip,
\* apply_buff, remove_buff, tick_buffs) replaces only the stat portion: the id,
\* the equipped items and the active effects (active DoTs, status effects,
\* effects list) are the same after the call as before it.
C2_RebuildKeepsIdentity ==
    sb.rebuilt =>
        /\ sb.block.id = sb.pre.id
        /\ sb.block.equipped_items = sb.pre.equipped_items
        /\ sb.block.active_dots = sb.pre.active_dots
        /\ sb.block.active_status_effects = sb.pre.active_status_effects
        /\ sb.block.effects = sb.pre.effects

\* C3: after a rebuild current_life is min(current_life before, recomputed
\* max_life.compute()), likewise current_mana and current_energy_shield against
\* their maxima; a resource within its maximum (the life of a damaged entity, an
\* externally set max_energy_shield with its current shield) is left as it was.
C3_RebuildClampsCurrent ==
    sb.rebuilt =>
        /\ sb.block.current_life =
              RMin(sb.pre.current_life, compute(sb.block.max_life))
        /\ sb.block.current_mana =
              RMin(sb.pre.current_mana, compute(sb.block.max_mana))
        /\ sb.block.current_energy_shield =
              RMin(sb.pre.current_energy_shield, sb.pre.max_energy_shield)
        /\ sb.block.max_energy_shield = sb.pre.max_energy_shield

\* the Local modifiers of one stat on an item
LocalAffixes(item, stat) ==
    SelectSeq(item.implicit \o item.prefixes \o item.suffixes,
              LAMBDA m : m.stat = stat /\ m.scope = "Local")

\* (base + added) * (1 + p/100) over the Local modifiers of an item
LocalWeaponDamage(item, base, added) ==
    RMul(RAdd(base, RSum(added)),
         RAdd(One, RDiv(RSum([i \in 1..Len(LocalAffixes(item, "IncreasedPhysicalDamage")) |->
                                LocalAffixes(item, "IncreasedPhysicalDamage")[i].value]),
                        Q(100))))

\* C8: with a main-hand item of base physical (bmin, bmax), Local
\* AddedPhysicalDamage (a, b) and Local IncreasedPhysicalDamage p, the rebuilt
\* block has weapon_physical_min = (bmin + a) * (1 + p/100) and
\* weapon_physical_max = (bmax + b) * (1 + p/100).
C8_LocalWeaponDamage ==
    (/\ sb.rebuilt /\ sb.op # "rebuild_from_sources"
     /\ "MainHand" \in DOMAIN sb.block.equipped_items) =>
        LET item == sb.block.equipped_items["MainHand"]
            entry == item.damage[1].damages[1]
            added == LocalAffixes(item, "AddedPhysicalDamage")
        IN  /\ sb.block.weapon_physical_min =
                  LocalWeaponDamage(item, entry.min,
                                    [i \in 1..Len(added) |-> added[i].value])
            /\ sb.block.weapon_physical_max =
                  LocalWeaponDamage(item, entry.max,
                                    [i \in 1..Len(added) |-> ValueMax(added[i])])

\* C20: rebuild idempotence: calling rebuild_from_sources(S) a second time in
\* a row with the same sources leaves the block equal to its state after the
\* first call, every field included.
C20_RebuildIdempotent ==
    (sb.op = "rebuild_from_sources" /\ sb.twice) => sb.block = sb.pre

\* the second of two calls in a row, with sources that move stats off their base
C20_Witness ==
    /\ sb.op = "rebuild_from_sources" /\ sb.twice
    /\ sb.block = sb.pre
    /\ Len(sb.sources) = 3
    /\ sb.block.max_life # with_id("player").max_life
    /\ sb.block.global_physical_damage.more # <<>>

\* the fields of a block that hold stats computed from its sources
ComputedFields ==
    DOMAIN with_id("player") \
        {"id", "equipped_items", "buff_sources", "current_life", "current_mana",
         "current_energy_shield", "max_energy_shield", "active_dots", "active_buffs",
         "active_status_effects", "effects"}

\* the stats of the block are those of its equipped items and its active
\* buff sources, and of nothing else
StatsOfOwnSources ==
    \A f \in ComputedFields : sb.block[f] = rebuild(sb.block)[f]

\* an equip or apply_buff that follows rebuild_from_sources keeps the strength
\* and life the base stats source of that call supplied
SuppliedStatsKept ==
    (/\ sb.op = "rebuild_from_sources"
     /\ \E i \in 1..Len(sb.sources) : sb.sources[i].kind = "BaseStats"
     /\ sb'.op \in {"equip", "apply_buff"})
        => /\ sb'.block.strength.flat = sb.block.strength.flat
           /\ RLe(Q(12), sb'.block.max_life.flat)

\* C26: in every state reached by equip, unequip, apply_buff, remove_buff,
\* tick_buffs and rebuild_from_sources the computed stats hold the
\* contribution of every equipped item and every active buff source and of
\* no other item or buff, and a contribution supplied through
\* rebuild_from_sources is not lost by a later equip or apply_buff.
C26_StatsFollowSources ==
    /\ []StatsOfOwnSources
    /\ [][SuppliedStatsKept]_vars

(***************************************************************************)
(* rebuild_from_sources over the permutations of one list of sources       *)
(***************************************************************************)
\* a buff that raises physical damage and life
Rage ==
    BuffSource_new("rage", Q(5), FALSE,
        <<BuffModifier("IncreasedPhysicalDamage", Q(50), TRUE),
          BuffModifier("AddedLife", Q(10), FALSE),
          BuffModifier("IncreasedLife", Q(10), FALSE)>>)

\* a skill tree with two allocated nodes, one of them a more multiplier
Brutality ==
    SkillTreeSource(<<"brutality", "vitality">>,
        [brutality |-> <<NodeModifier("IncreasedPhysicalDamage", Q(30), TRUE)>>,
         vitality |-> <<NodeModifier("AddedLife", Q(15), FALSE),
                        NodeModifier("IncreasedLife", Q(20), FALSE)>>])

SourcePool ==
    {BaseStatsSource(2), GearSource("MainHand", IronSword), Brutality,
     BuffAsSource(Frailty), BuffAsSource(Rage)}

\* every order in which the pool can be passed in
PermutedSources ==
    {f \in [1..Cardinality(SourcePool) -> SourcePool] :
        \A i, j \in DOMAIN f : i # j => f[i] # f[j]}

InitOrder ==
    /\ sb = [pc |-> "run", op |-> "new", pre |-> with_id("player"),
             rebuilt |-> FALSE, block |-> with_id("player")]
    /\ cr = Idle /\ rq = Idle /\ cd = Idle /\ cv = Idle
    /\ ds = Idle /\ ef = Idle /\ dm = Idle /\ sv = Idle /\ sz = Idle

\* block.rebuild_from_sources(&sources) with the pool in some order
RebuildPermuted ==
    /\ \E sources \in PermutedSources :
          sb' = [pc |-> "run", op |-> "rebuild_from_sources",
                 pre |-> with_id("player"), rebuilt |-> TRUE,
                 block |-> rebuild_from_sources(sb.block, sources),
                 sources |-> sources, twice |-> FALSE]
    /\ UNCHANGED <<cr, rq, cd, cv, ds, ef, dm, sv, sz>>

NextOrder == RebuildPermuted

SpecOrder == InitOrder /\ [][NextOrder]_vars

\* the positions of a source list in ascending priority, equal priorities in
\* input order
StableOrder(sources) ==
    CHOOSE p \in [1..Len(sources) -> 1..Len(sources)] :
        /\ \A i, j \in DOMAIN p : i # j => p[i] # p[j]
        /\ \A i, j \in DOMAIN p : i < j =>
              \/ priority(sources[p[i]]) < priority(sources[p[j]])
              \/ priority(sources[p[i]]) = priority(sources[p[j]]) /\ p[i] < p[j]

\* the physical more multipliers one source of the pool pushes
PhysicalMoreOf(source) ==
    IF source = Brutality THEN <<Frac(3, 10)>>
    ELSE IF source = BuffAsSource(Frailty) THEN <<Frac(0 - 1, 5)>>
    ELSE IF source = BuffAsSource(Rage) THEN <<Frac(1, 2)>>
    ELSE <<>>

RECURSIVE MoresInOrder(_, _, _)
MoresInOrder(sources, p, i) ==
    IF i > Len(sources) THEN <<>>
    ELSE PhysicalMoreOf(sources[p[i]]) \o MoresInOrder(sources, p, i + 1)

StatValueFields ==
    {"max_life", "max_mana", "strength", "armour", "evasion", "fire_resistance",
     "global_physical_damage", "critical_chance", "critical_multiplier"}

\* the pool passed in one fixed order
ReferenceBlock ==
    rebuild_from_sources(with_id("player"),
        <<BuffAsSource(Rage), Brutality, BuffAsSource(Frailty),
          GearSource("MainHand", IronSword), BaseStatsSource(2)>>)

\* C21: rebuild_from_sources applies the sources in ascending priority and
\* sources of equal priority in input order, so the more list holds the
\* entries in that order, and permuting the input list changes no base, flat
\* or increased total of any stat.
C21_PriorityOrder ==
    sb.op = "rebuild_from_sources" =>
        /\ sb.block.global_physical_damage.more =
               MoresInOrder(sb.sources, StableOrder(sb.sources), 1)
        /\ \A f \in StatValueFields :
              /\ sb.block[f].base = ReferenceBlock[f].base
              /\ sb.block[f].flat = ReferenceBlock[f].flat
              /\ sb.block[f].increased = ReferenceBlock[f].increased

\* the buffs passed in first, Rage before Frailty, and the base stats last
C21_Witness ==
    /\ sb.op = "rebuild_from_sources"
    /\ sb.sources[1] = BuffAsSource(Rage)
    /\ sb.sources[2] = BuffAsSource(Frailty)
    /\ sb.sources[5] = BaseStatsSource(2)
    /\ sb.block.global_physical_damage.more = <<Frac(3, 10), Frac(1, 2), Frac(0 - 1, 5)>>
    /\ sb.block.max_life.flat # Zero
    /\ sb.block.max_life.increased = Frac(3, 10)

(***************************************************************************)
(* DamageConversions.  A damage map is a function from the damage types    *)
(* present in the HashMap to their amounts.                                *)
(***************************************************************************)
DamageConversions_default ==
    [physical_to_fire |-> Zero, physical_to_cold |-> Zero,
     physical_to_lightning |-> Zero, physical_to_chaos |-> Zero,
     lightning_to_fire |-> Zero, lightning_to_cold |-> Zero,
     cold_to_fire |-> Zero, fire_to_chaos |-> Zero]

has_conversions(c) ==
    \/ RLt(Zero, c.physical_to_fire) \/ RLt(Zero, c.physical_to_cold)
    \/ RLt(Zero, c.physical_to_lightning) \/ RLt(Zero, c.physical_to_chaos)
    \/ RLt(Zero, c.lightning_to_fire) \/ RLt(Zero, c.lightning_to_cold)
    \/ RLt(Zero, c.cold_to_fire) \/ RLt(Zero, c.fire_to_chaos)

\* *m.entry(k).or_insert(0.0) += v
EntryAdd(m, k, v) ==
    [x \in DOMAIN m \cup {k} |->
        IF x = k THEN RAdd(IF k \in DOMAIN m THEN m[k] ELSE Zero, v) ELSE m[x]]

\* the amount of a type in a map, 0.0 when absent
AmountOf(m, k) == IF k \in DOMAIN m THEN m[k] ELSE Zero

ConvertPhysical(c, m) ==
    IF "Physical" \notin DOMAIN m THEN m
    ELSE Let(<<RMul(m["Physical"], c.physical_to_fire),
               RMul(m["Physical"], c.physical_to_cold),
               RMul(m["Physical"], c.physical_to_lightning),
               RMul(m["Physical"], c.physical_to_chaos)>>, LAMBDA to :
         Let(RMin(RAdd(RAdd(RAdd(to[1], to[2]), to[3]), to[4]), m["Physical"]),
             LAMBDA total_converted :
                IF RLt(Zero, total_converted)
                THEN EntryAdd(EntryAdd(EntryAdd(EntryAdd(
                        EntryAdd(m, "Physical", RSub(Zero, total_converted)),
                        "Fire", to[1]), "Cold", to[2]), "Lightning", to[3]),
                        "Chaos", to[4])
                ELSE m))

ConvertLightning(c, m) ==
    IF "Lightning" \notin DOMAIN m THEN m
    ELSE Let(<<RMul(m["Lightning"], c.lightning_to_fire),
               RMul(m["Lightning"], c.lightning_to_cold)>>, LAMBDA to :
         Let(RMin(RAdd(to[1], to[2]), m["Lightning"]), LAMBDA total_converted :
                IF RLt(Zero, total_converted)
                THEN EntryAdd(EntryAdd(
                        EntryAdd(m, "Lightning", RSub(Zero, total_converted)),
                        "Fire", to[1]), "Cold", to[2])
                ELSE m))

ConvertCold(c, m) ==
    IF "Cold" \notin DOMAIN m THEN m
    ELSE Let(RMul(m["Cold"], c.cold_to_fire), LAMBDA to_fire :
            IF RLt(Zero, to_fire)
            THEN EntryAdd(EntryAdd(m, "Cold", RSub(Zero, to_fire)), "Fire", to_fire)
            ELSE m)

ConvertFire(c, m) ==
    IF "Fire" \notin DOMAIN m THEN m
    ELSE Let(RMul(m["Fire"], c.fire_to_chaos), LAMBDA to_chaos :
            IF RLt(Zero, to_chaos)
            THEN EntryAdd(EntryAdd(m, "Fire", RSub(Zero, to_chaos)), "Chaos", to_chaos)
            ELSE m)

\* result.retain(|_, v| *v > 0.0)
RetainPositive(m) == [x \in {k \in DOMAIN m : RLt(Zero, m[k])} |-> m[x]]

\* a variant that converts every source from the original amounts, Fire first
DamageConversions_apply_fire_first(c, damages) ==
    RetainPositive(ConvertPhysical(c, ConvertLightning(c, ConvertCold(c,
        ConvertFire(c, damages)))))

\* DamageConversions::apply
DamageConversions_apply(c, damages) ==
    RetainPositive(ConvertFire(c, ConvertCold(c, ConvertLightning(c,
        ConvertPhysical(c, damages)))))

MaxMapSteps == 2

Legs == {Zero, Frac(1, 2), One}

\* every damage map with amounts 40 * k over three sets of types
DamageMaps ==
    UNION {[types -> {Q(40 * k) : k \in 0..MaxMapSteps}] :
             types \in {{}, {"Physical"}, {"Physical", "Chaos"},
                        {"Lightning", "Fire"}}}
    \cup {[x \in DamageTypes |-> Q(100)], [x \in {"Physical"} |-> Q(100)]}

ConversionInputs ==
    {[DamageConversions_default EXCEPT
         !.physical_to_lightning = a, !.lightning_to_cold = b, !.cold_to_fire = c,
         !.physical_to_chaos = o[1], !.lightning_to_fire = o[1],
         !.fire_to_chaos = o[2]] :
       a \in Legs, b \in Legs, c \in Legs,
       o \in {<<Zero, Zero>>, <<Frac(1, 2), Zero>>, <<Zero, Frac(1, 2)>>,
              <<Frac(1, 2), One>>}}

InitConvert ==
    /\ \E c \in ConversionInputs, m \in DamageMaps :
          cv = [pc |-> "start", conversions |-> c, damages |-> m, out |-> <<>>]
    /\ cr = Idle /\ rq = Idle /\ sb = Idle /\ cd = Idle
    /\ ds = Idle /\ ef = Idle /\ dm = Idle /\ sv = Idle /\ sz = Idle

\* let out = conversions.apply(&damages)
Convert ==
    /\ cv.pc = "start"
    /\ cv' = [cv EXCEPT !.pc = "done",
                        !.out = DamageConversions_apply(cv.conversions, cv.damages)]
    /\ UNCHANGED <<cr, rq, sb, cd, ds, ef, dm, sv, sz>>

NextConvert == Convert

SpecConvert == InitConvert /\ [][NextConvert]_vars

(***************************************************************************)
(* Properties of DamageConversions::apply.                                 *)
(***************************************************************************)
Converted == cv.pc = "done"

\* only the legs of the chain Physical -> Lightning -> Cold -> Fire are set
ChainOnly ==
    /\ cv.conversions.physical_to_fire = Zero
    /\ cv.conversions.physical_to_cold = Zero
    /\ cv.conversions.physical_to_chaos = Zero
    /\ cv.conversions.lightning_to_fire = Zero
    /\ cv.conversions.fire_to_chaos = Zero

\* the amounts the chain leaves when every step works on what the earlier
\* steps left: <<physical, lightning before its step, cold before its step>>
ChainBefore ==
    Let(RAdd(AmountOf(cv.damages, "Lightning"),
             RMul(AmountOf(cv.damages, "Physical"), cv.conversions.physical_to_lightning)),
        LAMBDA l1 :
            <<l1, RAdd(AmountOf(cv.damages, "Cold"),
                       RMul(l1, cv.conversions.lightning_to_cold))>>)

ChainExpected ==
    [Physical  |-> RMul(AmountOf(cv.damages, "Physical"),
                        RSub(One, cv.conversions.physical_to_lightning)),
     Lightning |-> RMul(ChainBefore[1], RSub(One, cv.conversions.lightning_to_cold)),
     Cold      |-> RMul(ChainBefore[2], RSub(One, cv.conversions.cold_to_fire)),
     Fire      |-> RAdd(AmountOf(cv.damages, "Fire"),
                        RMul(ChainBefore[2], cv.conversions.cold_to_fire)),
     Chaos     |-> AmountOf(cv.damages, "Chaos")]

HalfChain ==
    [DamageConversions_default EXCEPT !.physical_to_lightning = Frac(1, 2),
                                      !.lightning_to_cold = Frac(1, 2),
                                      !.cold_to_fire = Frac(1, 2)]

\* C10: apply converts Physical, then Lightning, then Cold, then Fire, each
\* step on the amounts the earlier steps left, so converted damage is subject
\* to the legs of the type it lands in (Physical 100 through a 50% chain
\* gives Physical 50, Lightning 25, Cold 12.5, Fire 12.5); the Chaos amount
\* is never below the input's, and every entry of the result is strictly
\* positive.
C10_ConversionOrder ==
    Converted =>
        /\ ChainOnly => \A k \in DamageTypes : AmountOf(cv.out, k) = ChainExpected[k]
        /\ (cv.conversions = HalfChain /\ cv.damages = [x \in {"Physical"} |-> Q(100)])
              => cv.out = [Physical |-> Q(50), Lightning |-> Q(25),
                           Cold |-> Frac(25, 2), Fire |-> Frac(25, 2)]
        /\ RLe(AmountOf(cv.damages, "Chaos"), AmountOf(cv.out, "Chaos"))
        /\ \A k \in DOMAIN cv.out : RLt(Zero, cv.out[k])

\* a chained conversion has run on an input that also holds Chaos, and an
\* entry that fell to zero was dropped
C10_Witness ==
    /\ Converted
    /\ cv.conversions = [HalfChain EXCEPT !.physical_to_lightning = One,
                                          !.fire_to_chaos = Frac(1, 2)]
    /\ cv.damages = [x \in DamageTypes |-> Q(100)]
    /\ "Physical" \notin DOMAIN cv.out
    /\ RLt(Q(100), cv.out["Chaos"])

\* the sum of the amounts of a damage map
MapTotal(m) ==
    RSum(<<AmountOf(m, "Physical"), AmountOf(m, "Fire"), AmountOf(m, "Cold"),
           AmountOf(m, "Lightning"), AmountOf(m, "Chaos")>>)

\* C27: apply conserves the total: the sum of the output amounts equals the
\* sum of the input amounts for every input map and every set of legs in
\* [0, 1], also when the legs of one source type add up to more than 100%.
C27_ConservesTotal ==
    Converted => MapTotal(cv.out) = MapTotal(cv.damages)

(***************************************************************************)
(* DamagePacketGenerator and calculate_damage.  The random generator is    *)
(* the pair of `rolls` (the fractions gen_range draws, in call order) and  *)
(* `crit_roll` (the value of gen::<f64>()); `order` is the order in which  *)
(* the HashMap of converted damages is iterated.  Of the per-status and    *)
(* per-element fields of the attacker the block carries Poison and Fire;   *)
(* the others are at their defaults.                                       *)
(***************************************************************************)
TypeOrder == <<"Physical", "Fire", "Cold", "Lightning", "Chaos">>

StatusOrder ==
    <<"Poison", "Bleed", "Burn", "Freeze", "Chill", "Static", "Fear", "Slow">>

SkillStatusConversions_default ==
    [physical_to_poison |-> Zero, chaos_to_poison |-> Zero,
     physical_to_bleed |-> Zero, fire_to_burn |-> Zero,
     cold_to_freeze |-> Zero, cold_to_chill |-> Zero,
     lightning_to_static |-> Zero, chaos_to_fear |-> Zero,
     physical_to_slow |-> Zero, cold_to_slow |-> Zero]

get_conversion(sc, from, to) ==
    CASE from = "Physical" /\ to = "Poison" -> sc.physical_to_poison
      [] from = "Chaos" /\ to = "Poison" -> sc.chaos_to_poison
      [] from = "Physical" /\ to = "Bleed" -> sc.physical_to_bleed
      [] from = "Fire" /\ to = "Burn" -> sc.fire_to_burn
      [] from = "Cold" /\ to = "Freeze" -> sc.cold_to_freeze
      [] from = "Cold" /\ to = "Chill" -> sc.cold_to_chill
      [] from = "Lightning" /\ to = "Static" -> sc.lightning_to_static
      [] from = "Chaos" /\ to = "Fear" -> sc.chaos_to_fear
      [] from = "Physical" /\ to = "Slow" -> sc.physical_to_slow
      [] from = "Cold" /\ to = "Slow" -> sc.cold_to_slow
      [] OTHER -> Zero

from_damage_type(conv, dt) ==
    CASE dt = "Physical" -> conv.from_physical
      [] dt = "Fire" -> conv.from_fire
      [] dt = "Cold" -> conv.from_cold
      [] dt = "Lightning" -> conv.from_lightning
      [] dt = "Chaos" -> conv.from_chaos

DamageTypeEffectiveness_default == [dt \in DamageTypes |-> One]

BaseDamage(damage_type, min, max) ==
    [damage_type |-> damage_type, min |-> min, max |-> max]

basic_attack ==
    [id |-> "basic_attack", base_damages |-> <<>>,
     weapon_effectiveness |-> One, damage_effectiveness |-> One,
     base_crit_chance |-> Zero, crit_multiplier_bonus |-> Zero,
     tags |-> {"Attack", "Melee"},
     status_conversions |-> SkillStatusConversions_default,
     damage_conversions |-> DamageConversions_default,
     type_effectiveness |-> DamageTypeEffectiveness_default,
     hits_per_attack |-> 1]

is_attack(skill) == "Attack" \in skill.tags

weapon_damage(block, damage_type) ==
    CASE damage_type = "Physical" -> <<block.weapon_physical_min, block.weapon_physical_max>>
      [] damage_type = "Fire" -> <<block.weapon_fire_min, block.weapon_fire_max>>
      [] OTHER -> <<Zero, Zero>>

computed_crit_multiplier(block) == compute(block.critical_multiplier)

get_stats(block, effect) ==
    IF effect = "Poison" THEN block.poison_stats ELSE StatusEffectStatsDefault

get_conversions(block, effect) ==
    IF effect = "Poison" THEN block.poison_conversions ELSE StatusConversionsDefault

base_duration_for(status) ==
    CASE status = "Poison" -> Q(2)
      [] status = "Bleed" -> Q(5)
      [] status = "Burn" -> Q(4)
      [] status = "Freeze" -> Frac(1, 2)
      [] status = "Chill" -> Q(2)
      [] status = "Static" -> One
      [] status = "Fear" -> Frac(3, 2)
      [] status = "Slow" -> Q(3)

base_dot_percent_for(status) ==
    CASE status \in {"Poison", "Bleed"} -> Frac(1, 5)
      [] status = "Burn" -> Frac(1, 4)
      [] OTHER -> Zero

\* if min >= max { max } else { rng.gen_range(min..=max) }: <<value, next draw>>
RollRange(min, max, rolls, k) ==
    IF RLe(max, min) THEN <<max, k>>
    ELSE <<RAdd(min, RMul(rolls[k], RSub(max, min))), k + 1>>

\* for base_dmg in &skill.base_damages: <<map, next draw>>
RECURSIVE GatherSkillDamage(_, _, _, _)
GatherSkillDamage(base_damages, rolls, k, m) ==
    IF base_damages = <<>> THEN <<m, k>>
    ELSE Let(RollRange(Head(base_damages).min, Head(base_damages).max, rolls, k),
             LAMBDA r : GatherSkillDamage(Tail(base_damages), rolls, r[2],
                            EntryAdd(m, Head(base_damages).damage_type, r[1])))

\* for damage_type in [Physical, Fire, Cold, Lightning, Chaos]: <<map, next draw>>
RECURSIVE GatherWeaponDamage(_, _, _, _, _, _)
GatherWeaponDamage(types, attacker, skill, rolls, k, m) ==
    IF types = <<>> THEN <<m, k>>
    ELSE Let(weapon_damage(attacker, Head(types)), LAMBDA w :
            IF RLt(Zero, w[2])
            THEN Let(RollRange(RMul(w[1], skill.weapon_effectiveness),
                               RMul(w[2], skill.weapon_effectiveness), rolls, k),
                     LAMBDA r : GatherWeaponDamage(Tail(types), attacker, skill, rolls,
                                    r[2], EntryAdd(m, Head(types), r[1])))
            ELSE GatherWeaponDamage(Tail(types), attacker, skill, rolls, k, m))

\* step 1 of calculate_damage
GatherBaseDamages(attacker, skill, rolls) ==
    Let(GatherSkillDamage(skill.base_damages, rolls, 1, <<>>), LAMBDA g :
        IF is_attack(skill) /\ RLt(Zero, skill.weapon_effectiveness)
        THEN GatherWeaponDamage(TypeOrder, attacker, skill, rolls, g[2], g[1])[1]
        ELSE g[1])

\* step 2 of calculate_damage
ConvertedDamages(skill, base_damages) ==
    IF has_conversions(skill.damage_conversions)
    THEN DamageConversions_apply(skill.damage_conversions, base_damages)
    ELSE base_damages

damage_stat(attacker, damage_type) ==
    CASE damage_type = "Physical" -> attacker.global_physical_damage
      [] damage_type = "Fire" -> attacker.global_fire_damage
      [] damage_type = "Cold" -> attacker.global_cold_damage
      [] damage_type = "Lightning" -> attacker.global_lightning_damage
      [] damage_type = "Chaos" -> attacker.global_chaos_damage

\* DamagePacket::add_damage on the list of damages
add_damage(damages, damage_type, amount) ==
    IF \E i \in 1..Len(damages) : damages[i].damage_type = damage_type
    THEN Let(CHOOSE i \in 1..Len(damages) :
                 /\ damages[i].damage_type = damage_type
                 /\ \A j \in 1..(i - 1) : damages[j].damage_type # damage_type,
             LAMBDA i : [damages EXCEPT ![i].amount = RAdd(damages[i].amount, amount)])
    ELSE Append(damages, FinalDamage(damage_type, amount))

scaled_damage(attacker, skill, damage_type, base_amount) ==
    RMul(RMul(RMul(RMul(base_amount,
        total_increased_multiplier(damage_stat(attacker, damage_type))),
        total_more_multiplier(damage_stat(attacker, damage_type))),
        skill.damage_effectiveness),
        skill.type_effectiveness[damage_type])

\* step 3 of calculate_damage: for (damage_type, base_amount) in converted_damages
RECURSIVE ScaleDamages(_, _, _, _, _)
ScaleDamages(order, converted, attacker, skill, damages) ==
    IF order = <<>> THEN damages
    ELSE ScaleDamages(Tail(order), converted, attacker, skill,
            IF Head(order) \notin DOMAIN converted
            THEN damages
            ELSE IF RLe(converted[Head(order)], Zero)
            THEN damages
            ELSE Let(scaled_damage(attacker, skill, Head(order), converted[Head(order)]),
                     LAMBDA scaled :
                        IF RLt(Zero, scaled) THEN add_damage(damages, Head(order), scaled)
                        ELSE damages))

\* packet.damages after steps 1 to 3
ScaledDamages(attacker, skill, rolls, order) ==
    ScaleDamages(order,
                 ConvertedDamages(skill, GatherBaseDamages(attacker, skill, rolls)),
                 attacker, skill, <<>>)

calculate_crit_chance(attacker, skill) ==
    Let(IF is_attack(skill)
        THEN RAdd(skill.base_crit_chance, attacker.weapon_crit_chance)
        ELSE skill.base_crit_chance, LAMBDA base_crit :
        RClamp(RMul(RMul(RAdd(base_crit, attacker.critical_chance.flat),
                         total_increased_multiplier(attacker.critical_chance)),
                    total_more_multiplier(attacker.critical_chance)),
               Zero, Q(100)))

\* a crit step that leaves the skill's bonus out of the multiplier
CritStepWithoutBonus(attacker, skill, packet, crit_roll) ==
    IF RLt(crit_roll, RDiv(calculate_crit_chance(attacker, skill), Q(100)))
    THEN [packet EXCEPT
            !.is_critical = TRUE,
            !.crit_multiplier = computed_crit_multiplier(attacker),
            !.damages = [i \in 1..Len(packet.damages) |->
                [packet.damages[i] EXCEPT !.amount =
                    RMul(@, computed_crit_multiplier(attacker))]]]
    ELSE [packet EXCEPT !.is_critical = FALSE]

\* step 4 of calculate_damage
CritStep(attacker, skill, packet, crit_roll) ==
    IF RLt(crit_roll, RDiv(calculate_crit_chance(attacker, skill), Q(100)))
    THEN Let(RAdd(computed_crit_multiplier(attacker), skill.crit_multiplier_bonus),
             LAMBDA crit_multiplier :
                [packet EXCEPT
                    !.is_critical = TRUE,
                    !.crit_multiplier = crit_multiplier,
                    !.damages = [i \in 1..Len(packet.damages) |->
                        [packet.damages[i] EXCEPT !.amount = RMul(@, crit_multiplier)]]])
    ELSE [packet EXCEPT !.is_critical = FALSE]

\* calculate_combined_status_damage
RECURSIVE calculate_combined_status_damage(_, _, _, _)
calculate_combined_status_damage(status, damages, skill_conversions, player_conversions) ==
    IF damages = <<>> THEN Zero
    ELSE RAdd(RMul(Head(damages).amount,
                   RAdd(get_conversion(skill_conversions, Head(damages).damage_type, status),
                        from_damage_type(player_conversions, Head(damages).damage_type))),
              calculate_combined_status_damage(status, Tail(damages), skill_conversions,
                                               player_conversions))

calculate_status_dot_dps(base_dot_percent, status_damage, stats) ==
    IF base_dot_percent = Zero THEN Zero
    ELSE RMul(RMul(base_dot_percent, status_damage), RAdd(One, stats.dot_increased))

\* step 6 of calculate_damage: for status in [Poison, ..., Slow]
RECURSIVE StatusApplications(_, _, _, _, _)
StatusApplications(statuses, damages, skill, attacker, pending) ==
    IF statuses = <<>> THEN pending
    ELSE StatusApplications(Tail(statuses), damages, skill, attacker,
            Let(calculate_combined_status_damage(Head(statuses), damages,
                    skill.status_conversions, get_conversions(attacker, Head(statuses))),
                LAMBDA status_damage :
                    IF RLt(Zero, status_damage)
                    THEN Append(pending,
                            Pending(Head(statuses), status_damage,
                                RMul(base_duration_for(Head(statuses)),
                                     RAdd(One, get_stats(attacker, Head(statuses)).duration_increased)),
                                RAdd(One, get_stats(attacker, Head(statuses)).magnitude),
                                calculate_status_dot_dps(base_dot_percent_for(Head(statuses)),
                                    status_damage, get_stats(attacker, Head(statuses)))))
                    ELSE pending))

calculate_damage(attacker, skill, source_id, rolls, crit_roll, order) ==
    Let(CritStep(attacker, skill,
                 [DamagePacket_new(source_id, skill.id) EXCEPT
                     !.damages = ScaledDamages(attacker, skill, rolls, order)],
                 crit_roll), LAMBDA packet :
        [packet EXCEPT
            !.fire_pen = compute(attacker.fire_penetration),
            !.accuracy = compute(attacker.accuracy),
            !.status_effects_to_apply =
                StatusApplications(StatusOrder, packet.damages, skill, attacker, <<>>),
            !.hit_count = skill.hits_per_attack])

(***************************************************************************)
(* SpecCalc: one calculate_damage call per behaviour.                      *)
(***************************************************************************)
MaxCritSteps == 4

\* flat critical chance -50, 0, 50, ...
CritFlatValues == {Q(50 * k - 50) : k \in 0..MaxCritSteps}

MkAttacker(crit_flat, crit_increased, crit_mult_increased, fire_max) ==
    [with_id("attacker") EXCEPT
        !.critical_chance.flat = crit_flat,
        !.critical_chance.increased = crit_increased,
        !.critical_multiplier.increased = crit_mult_increased,
        !.global_physical_damage.increased = Frac(1, 2),
        !.fire_penetration.base = Q(10),
        !.weapon_physical_min = Q(10),
        !.weapon_physical_max = Q(20),
        !.weapon_fire_min = fire_max,
        !.weapon_fire_max = fire_max,
        !.poison_stats.duration_increased = Frac(1, 2),
        !.poison_conversions.from_chaos = Frac(1, 4)]

fireball ==
    [basic_attack EXCEPT
        !.id = "fireball",
        !.base_damages = <<BaseDamage("Fire", Q(20), Q(30))>>,
        !.weapon_effectiveness = Zero,
        !.tags = {"Spell", "Fire"},
        !.status_conversions.fire_to_burn = Frac(1, 2)]

venom_strike ==
    [basic_attack EXCEPT
        !.id = "venom_strike",
        !.base_damages = <<BaseDamage("Chaos", Q(8), Q(8))>>,
        !.weapon_effectiveness = Frac(1, 2),
        !.damage_conversions.physical_to_fire = Frac(1, 2),
        !.status_conversions.physical_to_poison = Frac(1, 2),
        !.type_effectiveness["Fire"] = Q(2),
        !.hits_per_attack = 2]

Skills ==
    {[sk EXCEPT !.base_crit_chance = c, !.crit_multiplier_bonus = b] :
        sk \in {basic_attack, fireball, venom_strike},
        c \in {Zero, Q(5)}, b \in {Zero, Frac(1, 2)}}

RollInputs ==
    {<<Zero, Zero, Zero>>, <<Frac(1, 2), One, Zero>>, <<One, Frac(1, 2), Frac(1, 2)>>}

\* gen::<f64>() lies in [0, 1)
CritRolls == {Zero, Frac(1, 2), Frac(99, 100)}

IterationOrders == {TypeOrder, <<"Chaos", "Lightning", "Cold", "Fire", "Physical">>}

InitCalc ==
    /\ \E crit_flat \in CritFlatValues, crit_increased \in {Zero, One},
          crit_mult_increased \in {Zero, Frac(1, 2)}, fire_max \in {Zero, Q(5)},
          skill \in Skills, rolls \in RollInputs, crit_roll \in CritRolls,
          order \in IterationOrders :
            cd = [pc |-> "start",
                  attacker |-> MkAttacker(crit_flat, crit_increased,
                                          crit_mult_increased, fire_max),
                  skill |-> skill, rolls |-> rolls, crit_roll |-> crit_roll,
                  order |-> order,
                  packet |-> DamagePacket_new("", "")]
    /\ cr = Idle /\ rq = Idle /\ sb = Idle /\ cv = Idle
    /\ ds = Idle /\ ef = Idle /\ dm = Idle /\ sv = Idle /\ sz = Idle

\* let packet = calculate_damage(&attacker, &skill, "attacker", &mut rng)
Calculate ==
    /\ cd.pc = "start"
    /\ cd' = [cd EXCEPT !.pc = "done",
                        !.packet = calculate_damage(cd.attacker, cd.skill, "attacker",
                                       cd.rolls, cd.crit_roll, cd.order)]
    /\ UNCHANGED <<cr, rq, sb, cv, ds, ef, dm, sv, sz>>

NextCalc == Calculate

SpecCalc == InitCalc /\ [][NextCalc]_vars

(***************************************************************************)
(* Properties of the crit step of calculate_damage.                        *)
(***************************************************************************)
Calculated == cd.pc = "done"

\* the crit chance before clamping, weapon crit counted for Attack skills only
RawCritChance ==
    RMul(RMul(RAdd(RAdd(cd.skill.base_crit_chance,
                        IF "Attack" \in cd.skill.tags
                        THEN cd.attacker.weapon_crit_chance ELSE Zero),
                   cd.attacker.critical_chance.flat),
              RAdd(One, cd.attacker.critical_chance.increased)),
         RProd([i \in 1..Len(cd.attacker.critical_chance.more) |->
                    RAdd(One, cd.attacker.critical_chance.more[i])]))

ClampedCritChance == RClamp(RawCritChance, Zero, Q(100))

ScaledAmounts == ScaledDamages(cd.attacker, cd.skill, cd.rolls, cd.order)

StatedCritMultiplier ==
    RAdd(compute(cd.attacker.critical_multiplier), cd.skill.crit_multiplier_bonus)

\* C9: the crit chance is clamped to [0, 100] and counts the weapon's crit
\* chance for Attack skills only; the packet is critical exactly when the
\* roll is below chance / 100, so always at 100 and never at 0; a critical
\* packet stores critical_multiplier.compute() + crit_multiplier_bonus as
\* crit_multiplier and every amount is the scaled amount times it; a
\* non-critical packet carries the scaled amounts unchanged.
C9_CritChanceAndMultiplier ==
    Calculated =>
        /\ calculate_crit_chance(cd.attacker, cd.skill) = ClampedCritChance
        /\ RLe(Zero, calculate_crit_chance(cd.attacker, cd.skill))
        /\ RLe(calculate_crit_chance(cd.attacker, cd.skill), Q(100))
        /\ cd.packet.is_critical = RLt(cd.crit_roll, RDiv(ClampedCritChance, Q(100)))
        /\ ClampedCritChance = Q(100) => cd.packet.is_critical
        /\ ClampedCritChance = Zero => ~cd.packet.is_critical
        /\ Len(cd.packet.damages) = Len(ScaledAmounts)
        /\ cd.packet.is_critical =>
              /\ cd.packet.crit_multiplier = StatedCritMultiplier
              /\ \A i \in 1..Len(ScaledAmounts) :
                    /\ cd.packet.damages[i].damage_type = ScaledAmounts[i].damage_type
                    /\ cd.packet.damages[i].amount =
                          RMul(ScaledAmounts[i].amount, StatedCritMultiplier)
        /\ ~cd.packet.is_critical =>
              \A i \in 1..Len(ScaledAmounts) : cd.packet.damages[i] = ScaledAmounts[i]

\* a critical packet of an Attack skill with a bonus, several damage types
\* and a chance that the clamp cut down to 100
C9_Witness ==
    /\ Calculated
    /\ cd.packet.is_critical
    /\ "Attack" \in cd.skill.tags
    /\ RLt(Zero, cd.skill.crit_multiplier_bonus)
    /\ Len(cd.packet.damages) >= 2
    /\ RLt(Q(100), RawCritChance)
    /\ cd.crit_roll = Frac(99, 100)

(***************************************************************************)
(* SpecAilment: resolve_damage calls whose packets carry pending ailments, *)
(* against defenders of positive, zero and negative maximum life.          *)
(***************************************************************************)
MaxStatusSteps == 4

\* status damage -25, 0, 25, ...
StatusDamages == {Q(25 * k - 25) : k \in 0..MaxStatusSteps}

MaxLifeBases == {Q(50), Zero, Q(0 - 10)}

\* gen::<f64>() lies in [0, 1)
ApplyRolls == {Zero, Frac(1, 2), Frac(99, 100)}

\* <<pending status effects, the values the RNG returns for them>>
AilmentInputs ==
    {<<<<Pending(k, sd, Q(4), One, RMul(sd, Frac(1, 4)))>>, <<r>>>> :
        k \in {"Burn", "Poison", "Bleed", "Chill"}, sd \in StatusDamages, r \in ApplyRolls}
    \cup
    {<<<<Pending("Burn", Q(50), Q(4), One, Q(10)), Pending(k, Q(25), Q(2), One, Q(20))>>,
       <<r1, r2>>>> :
        k \in {"Burn", "Poison"}, r1 \in ApplyRolls, r2 \in ApplyRolls}

InitAilment ==
    /\ \E max_life \in MaxLifeBases, effects \in {<<>>, <<BurnOnDefender>>},
          damages \in {<<>>, <<FinalDamage("Fire", Q(20))>>}, st \in AilmentInputs :
            cr = [pc |-> "start",
                  defender |-> [MkDefender(Q(50), Zero, Zero, Zero, Zero, effects)
                                    EXCEPT !.max_life.base = max_life],
                  packet |-> MkPacket(damages, Zero, Q(1000), st[1]),
                  rolls |-> st[2],
                  new_defender |-> with_id("none"),
                  result |-> CombatResult_new]
    /\ rq = Idle /\ sb = Idle /\ cd = Idle /\ cv = Idle
    /\ ds = Idle /\ ef = Idle /\ dm = Idle /\ sv = Idle /\ sz = Idle

SpecAilment == InitAilment /\ [][NextResolve]_vars

\* clamp(status_damage / max life, 0, 1), and 0 when the maximum life is not positive
StatedApplyChance(status_damage, max_life) ==
    IF RLe(max_life, Zero) THEN Zero
    ELSE RClamp(RDiv(status_damage, max_life), Zero, One)

PendingApplied(i) ==
    RLt(cr.rolls[i],
        StatedApplyChance(cr.packet.status_effects_to_apply[i].status_damage,
                          compute(cr.defender.max_life)))

EffectOfPending(i) ==
    create_effect_from_status(cr.packet.status_effects_to_apply[i].effect_type,
                              cr.packet.status_effects_to_apply[i].duration,
                              cr.packet.status_effects_to_apply[i].magnitude,
                              cr.packet.status_effects_to_apply[i].dot_dps,
                              cr.packet.source_id)

\* the effects list and effects_applied after the pending ailments from i on
RECURSIVE AilmentsFrom(_, _, _)
AilmentsFrom(i, effects, applied) ==
    IF i > Len(cr.packet.status_effects_to_apply) THEN <<effects, applied>>
    ELSE IF PendingApplied(i)
    THEN AilmentsFrom(i + 1, add_effect(effects, EffectOfPending(i)),
                      Append(applied, EffectOfPending(i)))
    ELSE AilmentsFrom(i + 1, effects, applied)

\* C11: each pending ailment is applied exactly when its roll is below
\* clamp(status_damage / max_life.compute(), 0, 1): always when
\* status_damage >= max life > 0, never when max life <= 0 or
\* status_damage <= 0; an applied ailment is added to the returned defender's
\* effects through its stacking discipline and appended to
\* result.effects_applied, one that is not applied changes neither.
C11_AilmentApplication ==
    Resolved =>
        /\ cr.new_defender.effects = AilmentsFrom(1, cr.defender.effects, <<>>)[1]
        /\ cr.result.effects_applied = AilmentsFrom(1, cr.defender.effects, <<>>)[2]
        /\ \A i \in 1..Len(cr.packet.status_effects_to_apply) :
              /\ (/\ RLt(Zero, compute(cr.defender.max_life))
                  /\ RLe(compute(cr.defender.max_life),
                         cr.packet.status_effects_to_apply[i].status_damage))
                    => PendingApplied(i)
              /\ (\/ RLe(compute(cr.defender.max_life), Zero)
                  \/ RLe(cr.packet.status_effects_to_apply[i].status_damage, Zero))
                    => ~PendingApplied(i)
        /\ (\A i \in 1..Len(cr.packet.status_effects_to_apply) : ~PendingApplied(i))
              => /\ cr.new_defender.effects = cr.defender.effects
                 /\ cr.result.effects_applied = <<>>

\* of two pending ailments the first was applied on a roll just below 1 and
\* the second was not
C11_Witness ==
    /\ Resolved
    /\ Len(cr.packet.status_effects_to_apply) = 2
    /\ cr.rolls = <<Frac(99, 100), Frac(1, 2)>>
    /\ Len(cr.result.effects_applied) = 1
    /\ cr.result.effects_applied[1].status = "Burn"
    /\ cr.new_defender.effects # cr.defender.effects

(***************************************************************************)
(* DoT instances: ActiveDoT, DotConfig, apply_dot and process_dot_tick.    *)
(***************************************************************************)
RAbs(a) == IF RLt(a, Zero) THEN RSub(Zero, a) ELSE a

\* the least index of a set of indices, 0 for the empty set (iter().find)
FirstIndex(S) == IF S = {} THEN 0 ELSE CHOOSE i \in S : \A j \in S : i <= j

ActiveDoT_is_active(dot) == RLt(Zero, dot.duration_remaining)

ActiveDoT_refresh(dot, new_duration, new_damage_per_tick) ==
    [dot EXCEPT
        !.damage_per_tick = IF RLt(@, new_damage_per_tick) THEN new_damage_per_tick ELSE @,
        !.duration_remaining = new_duration,
        !.total_duration = new_duration]

DotStrongestOnly == [kind |-> "StrongestOnly"]

DotUnlimited == [kind |-> "Unlimited"]

DotLimited(max_stacks, stack_effectiveness) ==
    [kind |-> "Limited", max_stacks |-> max_stacks,
     stack_effectiveness |-> stack_effectiveness]

DotConfig(id, damage_type, stacking, base_duration, tick_rate, moving_multiplier) ==
    [id |-> id, damage_type |-> damage_type, stacking |-> stacking,
     base_duration |-> base_duration, tick_rate |-> tick_rate,
     moving_multiplier |-> moving_multiplier]

\* indices of the DoTs of one type
OfType(dots, dot_type) == {i \in 1..Len(dots) : dots[i].dot_type = dot_type}

\* .map(|d| d.damage_per_tick).fold(0.0f64, f64::max) over the DoTs of one type
MaxDamageOfType(dots, dot_type) ==
    CHOOSE m \in {Zero} \cup {dots[i].damage_per_tick : i \in OfType(dots, dot_type)} :
        \A i \in OfType(dots, dot_type) : RLe(dots[i].damage_per_tick, m) /\ RLe(Zero, m)

\* the instance recalculate_strongest marks for a type: the first one whose
\* damage_per_tick is within 0.01 of the maximum (0 when there is none)
MarkedStrongest(dots, dot_type) ==
    FirstIndex({i \in OfType(dots, dot_type) :
        RLt(RAbs(RSub(dots[i].damage_per_tick, MaxDamageOfType(dots, dot_type))),
            Frac(1, 100))})

recalculate_strongest(dots) ==
    [i \in 1..Len(dots) |->
        [dots[i] EXCEPT !.is_strongest = (i = MarkedStrongest(dots, dots[i].dot_type))]]

\* a StrongestOnly arm that refreshes only on a strictly stronger DoT
apply_dot_match_strictly_stronger(dots, new_dot, config) ==
    IF OfType(dots, new_dot.dot_type) = {} THEN Append(dots, new_dot)
    ELSE IF RLt(dots[FirstIndex(OfType(dots, new_dot.dot_type))].damage_per_tick,
                new_dot.damage_per_tick)
    THEN [dots EXCEPT ![FirstIndex(OfType(dots, new_dot.dot_type))] =
            ActiveDoT_refresh(@, new_dot.total_duration, new_dot.damage_per_tick)]
    ELSE dots

\* a Limited arm that gives every stack full effectiveness
apply_dot_match_full_stacks(dots, new_dot, config) ==
    IF config.stacking.kind = "Limited"
           /\ Cardinality(OfType(dots, new_dot.dot_type)) < config.stacking.max_stacks
    THEN Append(dots, new_dot)
    ELSE dots

\* the match on config.stacking in apply_dot
apply_dot_match(dots, new_dot, config) ==
    CASE config.stacking.kind = "StrongestOnly" ->
            IF OfType(dots, new_dot.dot_type) # {}
            THEN IF RLe(dots[FirstIndex(OfType(dots, new_dot.dot_type))].damage_per_tick,
                        new_dot.damage_per_tick)
                 THEN [dots EXCEPT ![FirstIndex(OfType(dots, new_dot.dot_type))] =
                        ActiveDoT_refresh(@, new_dot.total_duration,
                                          new_dot.damage_per_tick)]
                 ELSE dots
            ELSE Append(dots, new_dot)
      [] config.stacking.kind = "Unlimited" -> Append(dots, new_dot)
      [] config.stacking.kind = "Limited" ->
            IF Cardinality(OfType(dots, new_dot.dot_type)) < config.stacking.max_stacks
            THEN Append(dots,
                    IF OfType(dots, new_dot.dot_type) # {}
                    THEN [new_dot EXCEPT
                            !.effectiveness = config.stacking.stack_effectiveness,
                            !.is_strongest = FALSE]
                    ELSE new_dot)
            ELSE Let(FirstIndex({i \in OfType(dots, new_dot.dot_type) :
                                    ~dots[i].is_strongest}), LAMBDA oldest :
                    IF oldest = 0 THEN dots
                    ELSE [dots EXCEPT ![oldest] =
                            ActiveDoT_refresh(@, new_dot.total_duration,
                                              new_dot.damage_per_tick)])

apply_dot(dots, new_dot, config) ==
    recalculate_strongest(apply_dot_match(dots, new_dot, config))

DotTickResult_new == [damage_by_type |-> <<>>, expired_dots |-> <<>>, total_damage |-> Zero]

DotTickResult_add_damage(result, damage_type, amount) ==
    [result EXCEPT
        !.damage_by_type =
            Let(FirstIndex({i \in 1..Len(result.damage_by_type) :
                              result.damage_by_type[i][1] = damage_type}), LAMBDA i :
                IF i # 0
                THEN [result.damage_by_type EXCEPT ![i][2] = RAdd(@, amount)]
                ELSE Append(result.damage_by_type, <<damage_type, amount>>)),
        !.total_damage = RAdd(@, amount)]

\* tick_damage without the moving multiplier
DotTickDamage_still(dot, is_moving, configs) ==
    RMul(dot.damage_per_tick, dot.effectiveness)

\* tick_damage of one tick of a DoT
DotTickDamage(dot, is_moving, configs) ==
    IF is_moving /\ dot.dot_type \in DOMAIN configs
    THEN RMul(RMul(dot.damage_per_tick, dot.effectiveness),
              configs[dot.dot_type].moving_multiplier)
    ELSE RMul(dot.damage_per_tick, dot.effectiveness)

\* while dot.time_until_tick <= 0.0 && dot.is_active(): <<dot, result>>
RECURSIVE DotTickLoop(_, _, _, _)
DotTickLoop(dot, result, is_moving, configs) ==
    IF RLe(dot.time_until_tick, Zero) /\ ActiveDoT_is_active(dot)
    THEN DotTickLoop([dot EXCEPT !.time_until_tick = RAdd(@, dot.tick_rate)],
                     DotTickResult_add_damage(result, dot.damage_type,
                                              DotTickDamage(dot, is_moving, configs)),
                     is_moving, configs)
    ELSE <<dot, result>>

\* for dot in dots.iter_mut(): <<dots, result>>
RECURSIVE DotTickEach(_, _, _, _, _, _)
DotTickEach(dots, i, result, delta_time, is_moving, configs) ==
    IF i > Len(dots) THEN <<dots, result>>
    ELSE Let(DotTickLoop([dots[i] EXCEPT
                            !.duration_remaining = RSub(@, delta_time),
                            !.time_until_tick = RSub(@, delta_time)],
                         result, is_moving, configs), LAMBDA r :
            DotTickEach([dots EXCEPT ![i] = r[1]], i + 1, r[2],
                        delta_time, is_moving, configs))

RECURSIVE MapDotType(_)
MapDotType(dots) ==
    IF dots = <<>> THEN <<>> ELSE <<Head(dots).dot_type>> \o MapDotType(Tail(dots))

NotActive(dot) == ~ActiveDoT_is_active(dot)

\* process_dot_tick: <<dots, result>>
process_dot_tick(dots, delta_time, is_moving, configs) ==
    Let(DotTickEach(dots, 1, DotTickResult_new, delta_time, is_moving, configs),
        LAMBDA r :
            <<SelectSeq(r[1], ActiveDoT_is_active),
              [r[2] EXCEPT !.expired_dots = MapDotType(SelectSeq(r[1], NotActive))]>>)

(***************************************************************************)
(* SpecDots: the DoT list of one entity under apply_dot and                *)
(* process_dot_tick.  ds.pre is the list before the last call, ds.new_dot  *)
(* and ds.config its arguments, ds.result the last tick result.            *)
(***************************************************************************)
MaxDotOps == 4
BleedMaxStacks == 3

DotRegistry ==
    [ignite |-> DotConfig("ignite", "Fire", DotStrongestOnly, Q(4), Frac(1, 2), One),
     poison |-> DotConfig("poison", "Chaos", DotUnlimited, Q(2), Frac(1, 2), One),
     bleed  |-> DotConfig("bleed", "Physical",
                          DotLimited(BleedMaxStacks, Frac(1, 2)), Q(5), One, Q(2))]

MkDot(dot_type, damage_per_tick, duration) ==
    ActiveDoT_new(dot_type, "player", DotRegistry[dot_type].damage_type,
                  damage_per_tick, DotRegistry[dot_type].tick_rate, duration)

NewDots ==
    {MkDot("ignite", Q(d), Q(t)) : d \in {30, 50, 70}, t \in {2, 4}}
    \cup {MkDot("bleed", d, Q(5)) : d \in {Q(30), Q(50), Q(70), Frac(13999, 200)}}
    \cup {MkDot("poison", Q(30), Q(t)) : t \in {2, 4}}

TickDeltas == {Frac(1, 2), Q(2)}

InitDots ==
    /\ ds = [op |-> "init", n |-> 0, pre |-> <<>>, new_dot |-> <<>>, config |-> <<>>,
             delta_time |-> Zero, is_moving |-> FALSE,
             dots |-> <<>>, result |-> DotTickResult_new]
    /\ cr = Idle /\ rq = Idle /\ sb = Idle /\ cd = Idle /\ cv = Idle
    /\ ef = Idle /\ dm = Idle /\ sv = Idle /\ sz = Idle

\* apply_dot(&mut dots, new_dot, &config)
ApplyDot ==
    /\ ds.n < MaxDotOps
    /\ \E new_dot \in NewDots :
          ds' = [op |-> "apply_dot", n |-> ds.n + 1, pre |-> ds.dots,
                 new_dot |-> new_dot, config |-> DotRegistry[new_dot.dot_type],
                 delta_time |-> Zero, is_moving |-> FALSE,
                 dots |-> apply_dot(ds.dots, new_dot, DotRegistry[new_dot.dot_type]),
                 result |-> DotTickResult_new]
    /\ UNCHANGED <<cr, rq, sb, cd, cv, ef, dm, sv, sz>>

\* let result = process_dot_tick(&mut dots, delta_time, is_moving, &configs)
ProcessDotTick ==
    /\ ds.n < MaxDotOps
    /\ \E delta_time \in TickDeltas, is_moving \in BOOLEAN :
        \E r \in {process_dot_tick(ds.dots, delta_time, is_moving, DotRegistry)} :
          ds' = [op |-> "process_dot_tick", n |-> ds.n + 1, pre |-> ds.dots,
                 new_dot |-> <<>>, config |-> <<>>,
                 delta_time |-> delta_time, is_moving |-> is_moving,
                 dots |-> r[1], result |-> r[2]]
    /\ UNCHANGED <<cr, rq, sb, cd, cv, ef, dm, sv, sz>>

NextDots == ApplyDot \/ ProcessDotTick

SpecDots == InitDots /\ [][NextDots]_vars

(***************************************************************************)
(* Properties of apply_dot.                                                *)
(***************************************************************************)
DotApplied == ds.op = "apply_dot"

KindsStacking(kind) == {t \in DOMAIN DotRegistry : DotRegistry[t].stacking.kind = kind}

\* the instances of the added DoT's type before and after the call
PreOf == OfType(ds.pre, ds.new_dot.dot_type)
PostOf == OfType(ds.dots, ds.new_dot.dot_type)

\* damage and durations of an instance are those of another
SameStrengthAndDuration(a, b) ==
    /\ a.damage_per_tick = b.damage_per_tick
    /\ a.duration_remaining = b.duration_remaining
    /\ a.total_duration = b.total_duration

\* equal but for the is_strongest flag
SameButFlag(a, b) == [a EXCEPT !.is_strongest = TRUE] = [b EXCEPT !.is_strongest = TRUE]

C13_LimitedBelowCap ==
    /\ \A t \in KindsStacking("Limited") :
          Cardinality(OfType(ds.dots, t)) <= DotRegistry[t].stacking.max_stacks
    /\ (/\ DotApplied
        /\ ds.config.stacking.kind = "Limited"
        /\ Cardinality(PreOf) < ds.config.stacking.max_stacks) =>
          /\ Len(ds.dots) = Len(ds.pre) + 1
          /\ ds.dots[Len(ds.dots)].dot_type = ds.new_dot.dot_type
          /\ SameStrengthAndDuration(ds.dots[Len(ds.dots)], ds.new_dot)
          /\ ds.dots[Len(ds.dots)].effectiveness =
                (IF PreOf = {} THEN One ELSE ds.config.stacking.stack_effectiveness)
          /\ \A i \in 1..Len(ds.pre) : SameButFlag(ds.dots[i], ds.pre[i])

\* a second bleed was appended at reduced effectiveness next to the first
C13_Witness ==
    /\ DotApplied
    /\ ds.config.stacking.kind = "Limited"
    /\ Cardinality(PreOf) = 1
    /\ Cardinality(PostOf) = 2
    /\ ds.dots[Len(ds.dots)].effectiveness = Frac(1, 2)

\* the instances of lowest damage among those of the added DoT's type
Weakest == {w \in PreOf : \A i \in PreOf : RLe(ds.pre[w].damage_per_tick,
                                                 ds.pre[i].damage_per_tick)}

\* C14: an add to a Limited kind that already holds max_stacks instances
\* appends nothing and refreshes the weakest existing instance (lowest
\* dot_dps): its duration and its dot_dps become the new instance's; every
\* other instance is unchanged.
C14_LimitedAtCap ==
    (/\ DotApplied
     /\ ds.config.stacking.kind = "Limited"
     /\ Cardinality(PreOf) >= ds.config.stacking.max_stacks) =>
        /\ Len(ds.dots) = Len(ds.pre)
        /\ \E w \in Weakest :
              /\ ds.dots[w].duration_remaining = ds.new_dot.duration_remaining
              /\ ds.dots[w].damage_per_tick = ds.new_dot.damage_per_tick
              /\ \A i \in (1..Len(ds.pre)) \ {w} : SameButFlag(ds.dots[i], ds.pre[i])

\* the instances of highest damage among those of a type
Strongest(t) == {m \in OfType(ds.dots, t) : \A i \in OfType(ds.dots, t) :
                    RLe(ds.dots[i].damage_per_tick, ds.dots[m].damage_per_tick)}

\* C15: after every add, each kind with an instance has exactly one instance
\* flagged is_strongest: the first in list order of those with the maximum
\* dot_dps.
C15_OneStrongest ==
    DotApplied =>
        \A t \in DOMAIN DotRegistry :
            OfType(ds.dots, t) # {} =>
                {i \in OfType(ds.dots, t) : ds.dots[i].is_strongest}
                    = {FirstIndex(Strongest(t))}


\* C18: a refresh never shortens a duration: after an add that refreshes an
\* existing instance, every instance that was present before the add has a
\* duration_remaining greater than or equal to its value before the add,
\* for every new duration passed in.
C18_RefreshNeverShortens ==
    DotApplied =>
        \A i \in 1..Len(ds.pre) :
            RLe(ds.pre[i].duration_remaining, ds.dots[i].duration_remaining)

\* C28: under Limited stacking, after an add the instance flagged
\* is_strongest has effectiveness 1.0 and every other instance of the kind
\* has stack_effectiveness, also when a later instance is the stronger one.
C28_StrongestAtFull ==
    DotApplied =>
        \A t \in KindsStacking("Limited") : \A i \in OfType(ds.dots, t) :
            ds.dots[i].effectiveness =
                (IF ds.dots[i].is_strongest THEN One
                 ELSE DotRegistry[t].stacking.stack_effectiveness)

DotTicked == ds.op = "process_dot_tick"

\* the instances of a type that a tick of ds.delta_time leaves without
\* duration
Lapsed(t) == {i \in OfType(ds.pre, t) :
                RLe(RSub(ds.pre[i].duration_remaining, ds.delta_time), Zero)}

\* the positions of a type in the expired_dots of the last tick
Reported(t) == {i \in 1..Len(ds.result.expired_dots) :
                  ds.result.expired_dots[i] = t}

NoInactiveLeft == \A i \in 1..Len(ds.dots) : ActiveDoT_is_active(ds.dots[i])

ExpiredReported ==
    DotTicked =>
        /\ Len(ds.dots) + Len(ds.result.expired_dots) = Len(ds.pre)
        /\ \A t \in DOMAIN DotRegistry :
              Cardinality(Reported(t)) = Cardinality(Lapsed(t))

OneFlagged ==
    \A t \in DOMAIN DotRegistry :
        OfType(ds.dots, t) # {} =>
            Cardinality({i \in OfType(ds.dots, t) : ds.dots[i].is_strongest}) = 1

\* C29: after any interleaving of apply_dot and process_dot_tick the list
\* holds no instance with duration_remaining <= 0, every instance a tick
\* removed has its type in expired_dots, and every type that still has an
\* instance has exactly one instance flagged is_strongest.
C29_ListConsistent == NoInactiveLeft /\ ExpiredReported /\ OneFlagged


\* the same tick with the moving input as given and with it false
TickAsGiven == process_dot_tick(ds.pre, ds.delta_time, ds.is_moving, DotRegistry)
TickStill == process_dot_tick(ds.pre, ds.delta_time, FALSE, DotRegistry)

\* C23: a Bleed tick deals exactly twice the damage when the moving input is
\* true as when it is false, and the moving input changes the tick damage of
\* no other kind; the DoTs left and the expired ones are the same.
C23_BleedMoving ==
    (DotTicked /\ ds.is_moving) =>
        /\ ds.result = TickAsGiven[2]
        /\ ds.dots = TickStill[1]
        /\ ds.result.expired_dots = TickStill[2].expired_dots
        /\ Len(ds.result.damage_by_type) = Len(TickStill[2].damage_by_type)
        /\ \A i \in 1..Len(ds.result.damage_by_type) :
              /\ ds.result.damage_by_type[i][1] = TickStill[2].damage_by_type[i][1]
              /\ ds.result.damage_by_type[i][2] =
                    IF ds.result.damage_by_type[i][1] = DotRegistry.bleed.damage_type
                    THEN RMul(Q(2), TickStill[2].damage_by_type[i][2])
                    ELSE TickStill[2].damage_by_type[i][2]

\* a moving tick in which a bleed and another kind both dealt damage
C23_Witness ==
    /\ DotTicked /\ ds.is_moving
    /\ Len(ds.result.damage_by_type) >= 2
    /\ \E i \in 1..Len(ds.result.damage_by_type) :
          /\ ds.result.damage_by_type[i][1] = "Physical"
          /\ RLt(Zero, ds.result.damage_by_type[i][2])
    /\ \E i \in 1..Len(ds.result.damage_by_type) :
          /\ ds.result.damage_by_type[i][1] # "Physical"
          /\ RLt(Zero, ds.result.damage_by_type[i][2])

(***************************************************************************)
(* Ticking one ailment from creation to expiry: Effect::tick and           *)
(* process_dot_tick                                                        *)
(***************************************************************************)
Effect_is_active(effect) ==
    RLt(Zero, effect.duration_remaining) /\ effect.stacks > 0

\* one tick's damage: dot_dps * tick_rate * stacks * effectiveness
EffectTickDamage(effect) ==
    RMul(RMul(RMul(effect.dot_dps, effect.tick_rate), Q(effect.stacks)),
         effect.effectiveness)

\* while *time_until_tick <= 0.0 && self.duration_remaining > 0.0 { .. }
RECURSIVE EffectTickLoop(_, _, _)
EffectTickLoop(effect, time_until_tick, damage_dealt) ==
    IF RLe(time_until_tick, Zero) /\ RLt(Zero, effect.duration_remaining)
    THEN EffectTickLoop(effect, RAdd(time_until_tick, effect.tick_rate),
                        RAdd(damage_dealt, EffectTickDamage(effect)))
    ELSE <<time_until_tick, damage_dealt>>

\* Effect::tick(&mut self, delta) -> f64, as <<the effect afterwards, the damage>>
Effect_tick(effect, delta) ==
    LET r == IF RLt(Zero, effect.dot_dps)
             THEN EffectTickLoop(effect, RSub(effect.time_until_tick, delta), Zero)
             ELSE <<effect.time_until_tick, Zero>>
    IN  <<[effect EXCEPT !.time_until_tick = r[1],
                         !.duration_remaining = RSub(@, delta)],
          r[2]>>

MaxTickSteps == 8

LifeDeltas == {Frac(1, 2), Frac(3, 2), Q(3), Q(10)}

\* Effect::burn, Effect::bleed, and a burn that add_stack raised to two stacks
TickEffects ==
    {create_effect_from_status("Burn", Q(4), Zero, Q(20), "player"),
     create_effect_from_status("Bleed", Q(5), Zero, Q(10), "player"),
     [create_effect_from_status("Burn", Q(4), Zero, Q(20), "player")
         EXCEPT !.stacks = 2]}

TickDots == {MkDot("ignite", Q(10), Q(4)), MkDot("bleed", Q(10), Q(5))}

TickSubjects ==
    {[kind |-> "effect", start |-> e] : e \in TickEffects}
    \cup {[kind |-> "dot", start |-> d] : d \in TickDots}

InitTick ==
    /\ \E s \in TickSubjects :
          ef = [kind |-> s.kind, op |-> "init", n |-> 0, start |-> s.start,
                pre |-> <<s.start>>, cur |-> <<s.start>>, delta |-> Zero,
                damage |-> Zero, emitted |-> Zero, uniform |-> TRUE]
    /\ cr = Idle /\ rq = Idle /\ sb = Idle /\ cd = Idle /\ cv = Idle
    /\ ds = Idle /\ dm = Idle /\ sv = Idle /\ sz = Idle

\* let damage = effect.tick(delta)
TickEffect ==
    /\ ef.kind = "effect"
    /\ ef.n < MaxTickSteps
    /\ \E delta \in LifeDeltas :
        \E r \in {Effect_tick(ef.cur[1], delta)} :
          ef' = [ef EXCEPT !.op = "tick", !.n = @ + 1, !.pre = ef.cur,
                           !.cur = <<r[1]>>, !.delta = delta, !.damage = r[2],
                           !.emitted = RAdd(@, r[2]),
                           !.uniform = @ /\ delta = Frac(1, 2)]
    /\ UNCHANGED <<cr, rq, sb, cd, cv, ds, dm, sv, sz>>

\* let result = process_dot_tick(&mut dots, delta_time, false, &configs)
TickDot ==
    /\ ef.kind = "dot"
    /\ ef.n < MaxTickSteps
    /\ \E delta \in LifeDeltas :
        \E r \in {process_dot_tick(ef.cur, delta, FALSE, DotRegistry)} :
          ef' = [ef EXCEPT !.op = "tick", !.n = @ + 1, !.pre = ef.cur,
                           !.cur = r[1], !.delta = delta,
                           !.damage = r[2].total_damage,
                           !.emitted = RAdd(@, r[2].total_damage),
                           !.uniform = @ /\ delta = Frac(1, 2)]
    /\ UNCHANGED <<cr, rq, sb, cd, cv, ds, dm, sv, sz>>

NextTick == TickEffect \/ TickDot

SpecTick == InitTick /\ [][NextTick]_vars



ActiveDoT_dps(dot) ==
    IF RLe(dot.tick_rate, Zero) THEN Zero
    ELSE RMul(RDiv(dot.damage_per_tick, dot.tick_rate), dot.effectiveness)

\* the subject as it was created, the damage of one of its ticks, and
\* dot_dps * total_duration * stacks * effectiveness
TickWorth ==
    IF ef.kind = "effect" THEN EffectTickDamage(ef.start)
    ELSE RMul(ef.start.damage_per_tick, ef.start.effectiveness)

LifetimeDamage ==
    IF ef.kind = "effect"
    THEN RMul(RMul(RMul(ef.start.dot_dps, ef.start.total_duration),
                   Q(ef.start.stacks)), ef.start.effectiveness)
    ELSE RMul(ActiveDoT_dps(ef.start), ef.start.total_duration)

Ticked == ef.op = "tick"

\* the subject has run to expiry: the effect is no longer active, the DoT
\* has been removed from the list
Expired ==
    IF ef.kind = "effect" THEN ~Effect_is_active(ef.cur[1]) ELSE ef.cur = <<>>

StartedExpired ==
    ef.pre = <<>> \/ RLe(ef.pre[1].duration_remaining, Zero)

\* the step took the remaining duration to exactly 0 and a tick fell due in it
DueAtExpiry ==
    /\ ef.pre # <<>>
    /\ RLt(Zero, ef.pre[1].duration_remaining)
    /\ ef.pre[1].duration_remaining = ef.delta
    /\ RLe(RSub(ef.pre[1].time_until_tick, ef.delta), Zero)

\* C16: once an ailment has run from creation to expiry, under any sequence
\* of positive deltas, the damage its ticks emitted differs from
\* dot_dps * total_duration * stacks * effectiveness by at most one tick's
\* worth.
C16_TickConservation ==
    (Ticked /\ Expired) =>
        RLe(RAbs(RSub(ef.emitted, LifetimeDamage)), TickWorth)

\* C17: a tick that falls due in the step in which the remaining duration
\* reaches exactly 0 is still emitted (duration 4.0, tick rate 0.5, stepped
\* by 0.5 emits 8 ticks), and a step that starts with duration_remaining <= 0
\* emits no damage.
C17_TicksBeforeDecrement ==
    Ticked =>
        /\ DueAtExpiry => RLe(TickWorth, ef.damage)
        /\ (ef.uniform /\ ef.n = 8 /\ ef.start.total_duration = Q(4)
               /\ ef.start.tick_rate = Frac(1, 2))
              => ef.emitted = RMul(Q(8), TickWorth)
        /\ StartedExpired => ef.damage = Zero



(***************************************************************************)
(* Two runs of calculate_damage followed by resolve_damage on equal inputs *)
(***************************************************************************)
\* the draws a caller's seeded RNG hands to calculate_damage: the damage
\* rolls and the crit roll are a function of the seed
SeededRng(seed) ==
    CASE seed = 1 -> [rolls |-> <<Zero, Zero, Zero>>, crit_roll |-> Zero]
      [] seed = 2 -> [rolls |-> <<Frac(1, 2), One, Zero>>, crit_roll |-> Frac(1, 2)]
      [] seed = 3 -> [rolls |-> <<One, Frac(1, 2), Frac(1, 2)>>,
                      crit_roll |-> Frac(99, 100)]

Seeds == {1, 2, 3}

\* resolve_damage(defender, packet): the rolls come from rand::thread_rng()
resolve_damage(defender, packet, thread_rolls) ==
    resolve_damage_with_rng(defender, packet, thread_rolls)

\* what rand::thread_rng() may hand out for the ailment applications
ThreadRolls(packet) ==
    {[i \in 1..Len(packet.status_effects_to_apply) |-> r] : r \in {Zero, Frac(99, 100)}}

InitDeterminism ==
    /\ \E crit_flat \in {Zero, Q(100)}, max_life \in {Q(50), Q(500)},
          skill \in {basic_attack, fireball, venom_strike}, seed \in Seeds :
            dm = [pc |-> "calculate",
                  attacker |-> MkAttacker(crit_flat, Zero, Zero, Q(5)),
                  defender |-> [MkDefender(Q(50), Q(10), Zero, Zero, Zero, <<>>)
                                    EXCEPT !.max_life.base = max_life],
                  skill |-> skill, seed |-> seed,
                  packet |-> DamagePacket_new("attacker", skill.id),
                  runs |-> <<>>]
    /\ cr = Idle /\ rq = Idle /\ sb = Idle /\ cd = Idle /\ cv = Idle
    /\ ds = Idle /\ ef = Idle /\ sv = Idle /\ sz = Idle

\* let packet = calculate_damage(&attacker, &skill, id, &registry, &mut rng);
\* the HashMap of converted damages is iterated in an unspecified order
CalculateRun ==
    /\ dm.pc = "calculate"
    /\ \E order \in IterationOrders :
          dm' = [dm EXCEPT !.pc = "resolve",
                           !.packet = calculate_damage(dm.attacker, dm.skill, "attacker",
                                          SeededRng(dm.seed).rolls,
                                          SeededRng(dm.seed).crit_roll, order)]
    /\ UNCHANGED <<cr, rq, sb, cd, cv, ds, ef, sv, sz>>

\* let (new_defender, result) = resolve_damage(&defender, &packet)
ResolveRun ==
    /\ dm.pc = "resolve"
    /\ \E thread_rolls \in ThreadRolls(dm.packet) :
        \E r \in {resolve_damage(dm.defender, dm.packet, thread_rolls)} :
          dm' = [dm EXCEPT !.pc = IF Len(dm.runs) = 0 THEN "calculate" ELSE "done",
                           !.runs = Append(@, [packet |-> dm.packet,
                                               result |-> r.result,
                                               defender |-> r.defender])]
    /\ UNCHANGED <<cr, rq, sb, cd, cv, ds, ef, sv, sz>>

NextDeterminism == CalculateRun \/ ResolveRun

SpecDeterminism == InitDeterminism /\ [][NextDeterminism]_vars

\* C19: two runs of calculate_damage followed by resolve_damage on equal
\* attacker, defender, skill and RNG seed produce equal packets (the order of
\* packet.damages included), equal CombatResults and equal returned defenders.
C19_Determinism ==
    dm.pc = "done" => dm.runs[1] = dm.runs[2]



(***************************************************************************)
(* A StatValue under add_flat, add_increased and add_more                  *)
(***************************************************************************)
MaxValueOps == 4

FlatInputs == {Q(50), Q(0 - 30)}
PercentInputs == {Frac(1, 5), Frac(3, 10)}

\* the value, and the arguments of the calls so far, in call order
InitValue ==
    /\ \E base \in {Q(100), Q(40)} :
          sv = [op |-> "with_base", value |-> with_base(base), base |-> base,
                flats |-> <<>>, increaseds |-> <<>>, mores |-> <<>>]
    /\ cr = Idle /\ rq = Idle /\ sb = Idle /\ cd = Idle /\ cv = Idle
    /\ ds = Idle /\ ef = Idle /\ dm = Idle /\ sz = Idle

ValueOps == Len(sv.flats) + Len(sv.increaseds) + Len(sv.mores)

AddFlat ==
    /\ ValueOps < MaxValueOps
    /\ \E x \in FlatInputs :
          sv' = [sv EXCEPT !.op = "add_flat", !.value = add_flat(@, x),
                           !.flats = Append(@, x)]
    /\ UNCHANGED <<cr, rq, sb, cd, cv, ds, ef, dm, sz>>

AddIncreased ==
    /\ ValueOps < MaxValueOps
    /\ \E x \in PercentInputs :
          sv' = [sv EXCEPT !.op = "add_increased", !.value = add_increased(@, x),
                           !.increaseds = Append(@, x)]
    /\ UNCHANGED <<cr, rq, sb, cd, cv, ds, ef, dm, sz>>

AddMore ==
    /\ ValueOps < MaxValueOps
    /\ \E x \in PercentInputs :
          sv' = [sv EXCEPT !.op = "add_more", !.value = add_more(@, x),
                           !.mores = Append(@, x)]
    /\ UNCHANGED <<cr, rq, sb, cd, cv, ds, ef, dm, sz>>

NextValue == AddFlat \/ AddIncreased \/ AddMore

SpecValue == InitValue /\ [][NextValue]_vars

\* the product of (1 + m) over a list, taken from the last entry to the first
RECURSIVE ProductFromLast(_)
ProductFromLast(ms) ==
    IF ms = <<>> THEN One
    ELSE RMul(RAdd(One, ms[Len(ms)]), ProductFromLast(SubSeq(ms, 1, Len(ms) - 1)))

Reversed(ms) == [i \in 1..Len(ms) |-> ms[Len(ms) + 1 - i]]

\* C22: compute() = (base + flat) * (1 + increased) * product of (1 + more[i]):
\* the increased calls add up (one call of a + b gives the same result), the
\* more calls multiply, and the order of the more entries does not matter.
C22_ComposeLaw ==
    /\ compute(sv.value) =
          RMul(RMul(RAdd(sv.base, RSum(sv.flats)), RAdd(One, RSum(sv.increaseds))),
               ProductFromLast(sv.mores))
    /\ compute(sv.value) =
          compute(add_increased([sv.value EXCEPT !.increased = Zero], RSum(sv.increaseds)))
    /\ compute(sv.value) = compute([sv.value EXCEPT !.more = Reversed(@)])
    /\ sv.value.more = sv.mores

\* 100 base with 20% and 30% increased and 20% and 30% more: 100 * 1.5 * 1.56
C22_Witness ==
    /\ sv.base = Q(100) /\ sv.flats = <<>>
    /\ sv.increaseds = <<Frac(1, 5), Frac(3, 10)>>
    /\ sv.mores = <<Frac(1, 5), Frac(3, 10)>>
    /\ compute(sv.value) = Q(234)



(***************************************************************************)
(* Serialization: serialize, deserialize, serialize again.  A document is  *)
(* the function from the names of the fields written to their values.      *)
(***************************************************************************)
\* the orders in which a HashMap with these keys may be iterated
IterationsOf(keys) ==
    {q \in [1..Cardinality(keys) -> keys] : \A i, j \in DOMAIN q : i # j => q[i] # q[j]}

\* #[serde(skip)] buff_sources is not written; the equipped_items HashMap is
\* written entry by entry in its iteration order
StatBlock_serialize(block, order) ==
    [f \in DOMAIN block \ {"buff_sources"} |->
        IF f = "equipped_items"
        THEN [k \in 1..Len(order) |-> <<order[k], block.equipped_items[order[k]]>>]
        ELSE block[f]]

\* a skipped field is filled with Default::default()
StatBlock_deserialize(doc) ==
    [f \in DOMAIN doc \cup {"buff_sources"} |->
        IF f = "buff_sources" THEN <<>>
        ELSE IF f = "equipped_items"
        THEN [slot \in {doc.equipped_items[k][1] : k \in 1..Len(doc.equipped_items)} |->
                 doc.equipped_items[
                     CHOOSE k \in 1..Len(doc.equipped_items) :
                         doc.equipped_items[k][1] = slot][2]]
        ELSE doc[f]]

\* derive(Serialize, Deserialize) without field attributes: every field is
\* written in declaration order and read back
Derived_serialize(kind, value) == [type |-> kind, fields |-> value]
Derived_deserialize(doc) == doc.fields

SerializeAny(kind, value, order) ==
    IF kind = "StatBlock" THEN StatBlock_serialize(value, order)
    ELSE Derived_serialize(kind, value)

DeserializeAny(kind, doc) ==
    IF kind = "StatBlock" THEN StatBlock_deserialize(doc) ELSE Derived_deserialize(doc)

OrdersOf(kind, value) ==
    IF kind = "StatBlock" THEN IterationsOf(DOMAIN value.equipped_items) ELSE {<<>>}

\* blocks built with equip and apply_buff, effects, packets and results
SerializedBlocks ==
    {[rebuild([[with_id("player") EXCEPT !.equipped_items = items]
                  EXCEPT !.buff_sources = buffs]) EXCEPT !.current_life = life] :
        items \in {NoItems, [MainHand |-> IronSword],
                   [MainHand |-> IronSword, BodyArmour |-> IronPlate]},
        buffs \in {<<>>, <<Frailty>>},
        life \in {Q(30), Q(10)}}

SerializedEffects ==
    {create_effect_from_status(k, Q(4), One, d, "attacker") :
        k \in {"Burn", "Poison", "Bleed", "Chill"}, d \in {Zero, Q(10)}}

SerializedPackets ==
    {MkPacket(damages, Q(10), Q(1000), st[1]) :
        damages \in DamageInputs, st \in StatusInputs}

SerializedResults ==
    {resolve_damage_with_rng(MkDefender(Q(50), Q(10), Q(100), Zero, Q(25), <<>>),
                             MkPacket(damages, Q(10), Q(1000), st[1]), st[2]).result :
        damages \in DamageInputs, st \in StatusInputs}

SerializedSubjects ==
    {[kind |-> "StatBlock", value |-> v] : v \in SerializedBlocks}
    \cup {[kind |-> "Effect", value |-> v] : v \in SerializedEffects}
    \cup {[kind |-> "DamagePacket", value |-> v] : v \in SerializedPackets}
    \cup {[kind |-> "CombatResult", value |-> v] : v \in SerializedResults}

InitSerial ==
    /\ \E s \in SerializedSubjects :
          sz = [pc |-> "value", kind |-> s.kind, original |-> s.value,
                value |-> s.value, first |-> <<>>, bytes |-> <<>>]
    /\ cr = Idle /\ rq = Idle /\ sb = Idle /\ cd = Idle /\ cv = Idle
    /\ ds = Idle /\ ef = Idle /\ dm = Idle /\ sv = Idle

\* let bytes = to_vec(&value)
Serialize ==
    /\ sz.pc \in {"value", "restored"}
    /\ \E order \in OrdersOf(sz.kind, sz.value) :
          sz' = [sz EXCEPT !.pc = IF sz.pc = "value" THEN "bytes" ELSE "done",
                           !.first = IF sz.pc = "value" THEN <<>> ELSE sz.bytes,
                           !.bytes = SerializeAny(sz.kind, sz.value, order)]
    /\ UNCHANGED <<cr, rq, sb, cd, cv, ds, ef, dm, sv>>

\* let value = from_slice(&bytes)
Deserialize ==
    /\ sz.pc = "bytes"
    /\ sz' = [sz EXCEPT !.pc = "restored", !.value = DeserializeAny(sz.kind, sz.bytes)]
    /\ UNCHANGED <<cr, rq, sb, cd, cv, ds, ef, dm, sv>>

NextSerial == Serialize \/ Deserialize

SpecSerial == InitSerial /\ [][NextSerial]_vars

\* C24: serializing, deserializing and serializing again yields the same
\* bytes, and the deserialized value has every field of the original, for a
\* StatBlock its equipped items and its buff sources included.
C24_RoundTrip ==
    /\ sz.pc = "done" => sz.bytes = sz.first
    /\ sz.pc \in {"restored", "done"} => sz.value = sz.original



(***************************************************************************)
(* One call of Effect::tick or process_dot_tick, the loop test and the     *)
(* loop body one step each                                                 *)
(***************************************************************************)
\* more iterations than any call with a positive tick_rate makes for LoopDeltas
MaxLoopTicks == 8

\* any tick_rate is accepted by Effect::new_ailment, ActiveDoT::new and the
\* DoT configuration loader
TickRates == {Zero, Frac(1, 2), One}

LoopSubjects ==
    {[kind |-> "effect",
      start |-> new_ailment("Burn", duration, Zero, dot_dps, tick_rate,
                            StrongestOnly, "player")] :
        duration \in {One, Q(4)}, dot_dps \in {Zero, Q(20)}, tick_rate \in TickRates}
    \cup
    {[kind |-> "dot",
      start |-> ActiveDoT_new("ignite", "player", "Fire", Q(10), tick_rate, duration)] :
        duration \in {One, Q(4)}, tick_rate \in TickRates}

LoopDeltas == {Zero, Frac(1, 2), Q(3)}

InitLoop ==
    /\ \E s \in LoopSubjects, delta \in LoopDeltas :
          ef = [pc |-> "call", kind |-> s.kind, subject |-> s.start, delta |-> delta,
                damage |-> Zero, ticks |-> 0]
    /\ cr = Idle /\ rq = Idle /\ sb = Idle /\ cd = Idle /\ cv = Idle
    /\ ds = Idle /\ dm = Idle /\ sv = Idle /\ sz = Idle

\* the condition of the while loop
LoopCondition ==
    /\ RLe(ef.subject.time_until_tick, Zero)
    /\ RLt(Zero, ef.subject.duration_remaining)

\* up to the loop: Effect::tick subtracts delta from time_until_tick when the
\* ailment deals damage; process_dot_tick subtracts it from both timers
TickEnter ==
    /\ ef.pc = "call"
    /\ ef' = IF ef.kind = "effect"
             THEN IF RLt(Zero, ef.subject.dot_dps)
                  THEN [ef EXCEPT !.pc = "loop",
                                  !.subject.time_until_tick = RSub(@, ef.delta)]
                  ELSE [ef EXCEPT !.pc = "after"]
             ELSE [ef EXCEPT !.pc = "loop",
                             !.subject.time_until_tick = RSub(@, ef.delta),
                             !.subject.duration_remaining = RSub(@, ef.delta)]
    /\ UNCHANGED <<cr, rq, sb, cd, cv, ds, dm, sv, sz>>

\* the loop condition is true: enter the body
TickCheck ==
    /\ ef.pc = "loop"
    /\ LoopCondition
    /\ ef' = [ef EXCEPT !.pc = "body"]
    /\ UNCHANGED <<cr, rq, sb, cd, cv, ds, dm, sv, sz>>

\* one run of the loop body, then back to the condition; ef.ticks and
\* ef.damage record the first MaxLoopTicks iterations only
TickIterate ==
    /\ ef.pc = "body"
    /\ ef' = [ef EXCEPT
                !.pc = "loop",
                !.damage = IF ef.ticks < MaxLoopTicks
                           THEN RAdd(@, IF ef.kind = "effect"
                                        THEN EffectTickDamage(ef.subject)
                                        ELSE DotTickDamage(ef.subject, FALSE,
                                                           DotRegistry))
                           ELSE @,
                !.subject.time_until_tick = RAdd(@, ef.subject.tick_rate),
                !.ticks = IF ef.ticks < MaxLoopTicks THEN @ + 1 ELSE @]
    /\ UNCHANGED <<cr, rq, sb, cd, cv, ds, dm, sv, sz>>

\* the loop condition is false: the rest of the function, and the return
TickReturn ==
    /\ \/ ef.pc = "loop" /\ ~LoopCondition
       \/ ef.pc = "after"
    /\ ef' = IF ef.kind = "effect"
             THEN [ef EXCEPT !.pc = "returned",
                             !.subject.duration_remaining = RSub(@, ef.delta)]
             ELSE [ef EXCEPT !.pc = "returned"]
    /\ UNCHANGED <<cr, rq, sb, cd, cv, ds, dm, sv, sz>>

NextLoop == TickEnter \/ TickCheck \/ TickIterate \/ TickReturn

\* the thread running the call keeps running
SpecLoop == InitLoop /\ [][NextLoop]_vars /\ WF_vars(NextLoop)

\* C25: every tick operation terminates: Effect::tick and process_dot_tick
\* return after finitely many tick emissions, for every tick_rate a
\* constructor or a loaded configuration accepts (0 included) and every
\* delta >= 0.
C25_TickTerminates == <>(ef.pc = "returned")


====
